---- MODULE Spec2Model ----
(***************************************************************************)
(* A model of cmd-runner (cmdr): the alias table, the command sources, the *)
(* project resolver, the resolution engine CommandRunner.Run and the       *)
(* synthesis policies for check, fix and typecheck.                        *)
(*                                                                         *)
(* The file system is part of the state: two directories, the current      *)
(* directory "cwd" and a second directory "root" that is the project root  *)
(* when the project root differs from the current directory.  A directory  *)
(* is the set of file names it holds, the words its manifests contain and  *)
(* the task names its task files define.  A subprocess is a                *)
(* nondeterministic exit status.                                           *)
(***************************************************************************)
EXTENDS Integers, Sequences, FiniteSets, TLC

VARIABLES fs, ProjectRoot, typed, Command, Args, pc, idx, hasErrors,
          failedCommands, executedCommands, executedTypes, log, entered,
          err, exitCode,
          variants,  \* the result of GetCommandVariants
          tree,      \* the entries of each directory on the path walked
          startDir,  \* the argument of FindProjectRoot
          current,   \* the directory FindProjectRoot is looking at
          osArgs,    \* os.Args[1:], the command line as typed
          commandListCache, \* commandListCache.data: cache key -> listing
          listCalls,        \* how often the list function ran, per cache key
          goroutines,       \* the callers of getCachedCommands
          stack,            \* the runners whose Run has not returned yet
          session,          \* the InteractiveSession of RunInteractive
          stdin,            \* the terminal the session reads its keys from
          probes            \* what the searches of Run find in the directories

vars == <<fs, ProjectRoot, typed, Command, Args, pc, idx, hasErrors,
          failedCommands, executedCommands, executedTypes, log, entered,
          err, exitCode, variants, tree, startDir, current, osArgs,
          commandListCache, listCalls, goroutines, stack, session, stdin,
          probes>>

\* the variables of the command list cache
cacheVars == <<commandListCache, listCalls, goroutines>>

\* the variables of the call stack of Run and of the interactive session
auxVars == <<stack, session, stdin, probes>>

(***************************************************************************)
(* Bounds                                                                  *)
(***************************************************************************)
\* exit statuses of a subprocess range over 0..MaxStatus
MaxStatus == 2
\* a task file defines at most MaxTasks tasks
MaxTasks == 2
\* the call stack of Run holds at most MaxStack runners
MaxStack == 4
\* at most MaxKeys keys are typed before the input ends
MaxKeys == 3
\* the screens displayed are counted modulo MaxMenus
MaxMenus == 5
\* at most MaxArgs arguments follow the verb on the command line
MaxArgs == 2
\* FindProjectRoot starts at most MaxDepth directories below the filesystem
\* root
MaxDepth == 3
\* at most MaxGoroutines goroutines call getCachedCommands
MaxGoroutines == 2
\* each of them makes at most MaxCalls calls
MaxCalls == 2

(***************************************************************************)
(* Alias table                                                             *)
(***************************************************************************)
\* a table that knows no alias: the command is its only variant
GetCommandVariantsLiteral(command) == <<command>>

GetCommandVariants(command) ==
  CASE command = "format"    -> <<"format", "fmt", "f">>
    [] command = "f"         -> <<"f", "format", "fmt">>
    [] command = "run"       -> <<"run", "r", "dev", "serve", "start">>
    [] command = "r"         -> <<"r", "run", "dev", "serve", "start">>
    [] command = "dev"       -> <<"dev", "run", "serve", "start">>
    [] command = "serve"     -> <<"serve", "s", "dev", "run", "start">>
    [] command = "s"         -> <<"s", "serve", "dev", "run", "start">>
    [] command = "build"     -> <<"build", "b">>
    [] command = "b"         -> <<"b", "build">>
    [] command = "lint"      -> <<"lint", "l">>
    [] command = "l"         -> <<"l", "lint">>
    [] command = "test"      -> <<"test", "t", "tests">>
    [] command = "t"         -> <<"t", "test", "tests">>
    [] command = "fix"       -> <<"fix", "format-fix", "lint-fix">>
    [] command = "clean"     -> <<"clean">>
    [] command = "install"   -> <<"install">>
    [] command = "setup"     -> <<"setup">>
    [] command = "check"     -> <<"check">>
    [] command = "typecheck" -> <<"typecheck", "type-check", "types", "tc">>
    [] command = "tc"        -> <<"tc", "typecheck", "type-check", "types">>
    [] OTHER                 -> <<command>>

\* the alias table of NormalizeCommand: spelling -> alternatives
aliases(cmd) ==
  CASE cmd = "format"    -> <<"format", "fmt">>
    [] cmd = "fmt"       -> <<"format", "fmt">>
    [] cmd = "f"         -> <<"format">>
    [] cmd = "run"       -> <<"run", "dev", "serve", "start">>
    [] cmd = "r"         -> <<"run">>
    [] cmd = "dev"       -> <<"dev", "run", "serve", "start">>
    [] cmd = "serve"     -> <<"serve", "dev", "run", "start">>
    [] cmd = "s"         -> <<"serve">>
    [] cmd = "start"     -> <<"start", "run", "dev", "serve">>
    [] cmd = "build"     -> <<"build">>
    [] cmd = "b"         -> <<"build">>
    [] cmd = "lint"      -> <<"lint">>
    [] cmd = "l"         -> <<"lint">>
    [] cmd = "test"      -> <<"test">>
    [] cmd = "t"         -> <<"test">>
    [] cmd = "fix"       -> <<"fix">>
    [] cmd = "clean"     -> <<"clean">>
    [] cmd = "install"   -> <<"install">>
    [] cmd = "setup"     -> <<"setup">>
    [] cmd = "check"     -> <<"check">>
    [] cmd = "typecheck" -> <<"typecheck">>
    [] cmd = "tc"        -> <<"typecheck">>
    [] OTHER             -> <<>>

\* a canonicalization that takes the last alternative of the entry
NormalizeCommandLast(cmd) ==
  IF aliases(cmd) # <<>> THEN aliases(cmd)[Len(aliases(cmd))] ELSE cmd

NormalizeCommand(cmd) ==
  IF aliases(cmd) # <<>> THEN aliases(cmd)[1] ELSE cmd

(***************************************************************************)
(* Strings and the file system                                             *)
(***************************************************************************)
Paths == {"cwd", "root"}
CurrentDir == "cwd"

\* task names a task file (.mise.toml, justfile, Makefile, package.json
\* scripts, deno.json tasks) may define
TaskNames == {"check", "precheck", "f", "format", "fmt", "lint", "test",
              "typecheck", "autofix"}

TaskFiles == {"mise", "just", "make", "scripts", "deno"}

\* strings.Contains(s, sub) for the strings of the model: the pairs
\* <<s, sub>> with sub a proper substring of s, for every probe the code
\* makes with a substring test (the variants of "check" and of "fix")
ProperSubstrings ==
  {<<"precheck", "check">>, <<"typecheck", "check">>, <<"autofix", "fix">>}

StrContains(s, sub) == s = sub \/ <<s, sub>> \in ProperSubstrings

\* the listing a task runner prints contains `sub`
OutputContains(tasks, sub) == \E t \in tasks : StrContains(t, sub)

FileExists(p, f) == f \in fs[p].files

\* strings.Contains(content of pyproject.toml, w)
PyContains(p, w) == w \in fs[p].pyWords
\* strings.Contains(content of package.json, w)
PkgContains(p, w) == w \in fs[p].pkgWords

\* the first element of the sequence `vs` that is in `defined`, "" if none
FirstIn(vs, defined) ==
  IF \E i \in 1..Len(vs) : vs[i] \in defined
  THEN vs[CHOOSE i \in 1..Len(vs) :
            vs[i] \in defined /\ \A j \in 1..(i - 1) : vs[j] \notin defined]
  ELSE ""

(***************************************************************************)
(* Invocations (exec.Cmd)                                                  *)
(***************************************************************************)
None == [prog |-> "", argv |-> <<>>, dir |-> "", src |-> ""]
Cmd(prog, argv, dir, src) ==
  [prog |-> prog, argv |-> argv, dir |-> dir, src |-> src]

(***************************************************************************)
(* Command sources: FindCommand of each source kind                        *)
(***************************************************************************)
Priority(src) ==
  CASE src = "mise" -> 1
    [] src = "just" -> 2
    [] src = "make" -> 3
    [] OTHER        -> 10

\* mise, just and make look the variants up in their parsed task listing
MiseFindCommand(p, command, args) ==
  LET v == FirstIn(GetCommandVariants(command), fs[p].tasks["mise"])
  IN  IF v # "" THEN Cmd("mise", <<"run", v>> \o args, p, "mise") ELSE None

JustFindCommand(p, command, args) ==
  LET v == FirstIn(GetCommandVariants(command), fs[p].tasks["just"])
  IN  IF v # "" THEN Cmd("just", <<v>> \o args, p, "just") ELSE None

MakeFindCommand(p, command, args) ==
  LET v == FirstIn(GetCommandVariants(command), fs[p].tasks["make"])
  IN  IF v # "" THEN Cmd("make", <<v>> \o args, p, "make") ELSE None

\* the tsc invocation of a Node source for `typecheck`; None for deno
NodeTscCommand(p, pm, args, src) ==
  CASE pm = "npm"  -> Cmd("npx", <<"tsc", "--noEmit">> \o args, p, src)
    [] pm = "pnpm" -> Cmd("pnpm", <<"exec", "tsc", "--noEmit">> \o args, p, src)
    [] pm = "yarn" -> Cmd("yarn", <<"run", "tsc", "--noEmit">> \o args, p, src)
    [] pm = "bun"  -> Cmd("bun", <<"run", "tsc", "--noEmit">> \o args, p, src)
    [] pm = "deno" -> None
    [] OTHER       -> Cmd("npx", <<"tsc", "--noEmit">> \o args, p, src)

\* nodeBaseSource.FindCommand once the loop over the variants has ended:
\* v is the variant found among the scripts ("" if none)
NodeScriptCommand(p, pm, v, command, args) ==
  LET scriptExists == v # ""
      cmd          == IF scriptExists THEN v ELSE command
  IN  IF ~FileExists(p, "package.json") THEN None
      ELSE IF ~scriptExists /\ cmd = "setup" /\ pm # "deno"
        THEN Cmd(pm, <<"install">> \o args, p, pm)
      ELSE IF ~scriptExists /\ cmd = "install" /\ pm # "deno"
        THEN IF pm = "pnpm" THEN Cmd(pm, <<"link", "--global">> \o args, p, pm)
                            ELSE Cmd(pm, <<"link">> \o args, p, pm)
      ELSE IF ~scriptExists /\ cmd = "typecheck" /\ FileExists(p, "tsconfig.json")
        THEN NodeTscCommand(p, pm, args, pm)
      ELSE IF ~scriptExists THEN None
      ELSE IF pm = "deno" THEN Cmd(pm, <<"task", cmd>> \o args, p, pm)
      ELSE IF pm = "npm" /\ Len(args) > 0
        THEN Cmd(pm, <<"run", cmd, "--">> \o args, p, pm)
      ELSE Cmd(pm, <<"run", cmd>> \o args, p, pm)

NodeFindCommand(p, pm, command, args) ==
  NodeScriptCommand(p, pm,
                    FirstIn(GetCommandVariants(command), fs[p].tasks["scripts"]),
                    command, args)

denoCommands ==
  [run |-> "run", dev |-> "run", start |-> "run", test |-> "test",
   lint |-> "lint", format |-> "fmt", fmt |-> "fmt", typecheck |-> "check",
   tc |-> "check", check |-> "check", build |-> "compile",
   install |-> "install"]

EntryPoints == <<"main.ts", "main.js", "mod.ts", "mod.js", "index.ts", "index.js">>

\* DenoSource.FindCommand for the variants vs of the command
DenoVariantsCommand(p, vs, args) ==
  LET v     == FirstIn(vs, DOMAIN denoCommands)
      entry == FirstIn(EntryPoints, fs[p].files)
      \* `deno task --list` output searched for each variant in turn
      tv    == FirstIn(vs, {t \in {vs[i] : i \in 1..Len(vs)} :
                              OutputContains(fs[p].tasks["deno"], t)})
  IN  IF v # ""
        THEN IF denoCommands[v] = "run" /\ entry # ""
               THEN Cmd("deno", <<"run", "--allow-all", entry>> \o args, p, "Deno")
               ELSE Cmd("deno", <<denoCommands[v]>> \o args, p, "Deno")
      ELSE IF (FileExists(p, "deno.json") \/ FileExists(p, "deno.jsonc")) /\ tv # ""
        THEN Cmd("deno", <<"task", tv>> \o args, p, "Deno")
      ELSE None

DenoFindCommand(p, command, args) ==
  DenoVariantsCommand(p, GetCommandVariants(command), args)

poetryCommands ==
  [install |-> <<"install">>, setup |-> <<"install">>,
   run |-> <<"run", "python">>, test |-> <<"run", "pytest">>,
   lint |-> <<"run", "ruff", "check">>, format |-> <<"run", "ruff", "format">>,
   fmt |-> <<"run", "ruff", "format">>, fix |-> <<"run", "ruff", "check", "--fix">>,
   typecheck |-> <<"run", "pyright">>, tc |-> <<"run", "pyright">>,
   build |-> <<"build">>, publish |-> <<"publish">>]

\* Poetry falls back to `poetry run <command>`: it never answers not-found
PoetryFindCommand(p, command, args) ==
  LET v == FirstIn(GetCommandVariants(command), DOMAIN poetryCommands)
  IN  IF v # "" THEN Cmd("poetry", poetryCommands[v] \o args, p, "Poetry")
      ELSE Cmd("poetry", <<"run", command>> \o args, p, "Poetry")

uvCommands ==
  [install |-> <<"sync">>, setup |-> <<"sync">>, run |-> <<"run">>,
   test |-> <<"run", "pytest">>, lint |-> <<"run", "ruff", "check">>,
   format |-> <<"run", "ruff", "format">>, fmt |-> <<"run", "ruff", "format">>,
   fix |-> <<"run", "ruff", "check", "--fix">>,
   typecheck |-> <<"run", "pyright">>, tc |-> <<"run", "pyright">>]

UvFindCommand(p, command, args) ==
  LET v == FirstIn(GetCommandVariants(command), DOMAIN uvCommands)
  IN  IF v # "" THEN Cmd("uv", uvCommands[v] \o args, p, "uv") ELSE None

cargoCommands ==
  [build |-> "build", run |-> "run", test |-> "test", lint |-> "clippy",
   format |-> "fmt", fmt |-> "fmt", clean |-> "clean", typecheck |-> "check",
   tc |-> "check", check |-> "check", fix |-> "fix", setup |-> "fetch",
   install |-> "install", publish |-> "publish"]

\* (the `run:<binary>` targets of Cargo.toml are not part of the model: no
\* verb of the model starts with "run:")
CargoFindCommand(p, command, args) ==
  LET v == FirstIn(GetCommandVariants(command), DOMAIN cargoCommands)
  IN  IF v = "" THEN None
      ELSE IF cargoCommands[v] = "install"
        THEN Cmd("cargo", <<"install", "--path", ".">> \o args, p, "Cargo")
      ELSE Cmd("cargo", <<cargoCommands[v]>> \o args, p, "Cargo")

goCommands ==
  [build |-> <<"build">>, run |-> <<"run", ".">>, test |-> <<"test", "./...">>,
   format |-> <<"fmt", "./...">>, fmt |-> <<"fmt", "./...">>,
   clean |-> <<"clean">>, setup |-> <<"mod", "download">>,
   install |-> <<"install", ".">>, lint |-> <<"vet", "./...">>,
   typecheck |-> <<"build", "-o", "/dev/null", "./...">>,
   tc |-> <<"build", "-o", "/dev/null", "./...">>]

GoFindCommand(p, command, args) ==
  LET v == FirstIn(GetCommandVariants(command), DOMAIN goCommands)
  IN  IF v # "" THEN Cmd("go", goCommands[v] \o args, p, "Go") ELSE None

gradleCommands ==
  [build |-> "build", run |-> "run", test |-> "test", clean |-> "clean",
   check |-> "check", setup |-> "build", install |-> "installDist"]

GradleFindCommand(p, command, args) ==
  LET v    == FirstIn(GetCommandVariants(command), DOMAIN gradleCommands)
      exec == IF FileExists(p, "gradlew") THEN "./gradlew" ELSE "gradle"
  IN  IF v # "" THEN Cmd(exec, <<gradleCommands[v]>> \o args, p, "Gradle")
      ELSE None

mavenCommands ==
  [build |-> "compile", run |-> "exec:java", test |-> "test",
   clean |-> "clean", setup |-> "dependency:resolve", install |-> "install",
   package |-> "package"]

MavenFindCommand(p, command, args) ==
  LET v    == FirstIn(GetCommandVariants(command), DOMAIN mavenCommands)
      exec == IF FileExists(p, "mvnw") THEN "./mvnw" ELSE "mvn"
  IN  IF v # "" THEN Cmd(exec, <<mavenCommands[v]>> \o args, p, "Maven")
      ELSE None

\* CommandSource.FindCommand, dispatched on the source's kind
FindCommand(src, p, command, args) ==
  CASE src = "mise"   -> MiseFindCommand(p, command, args)
    [] src = "just"   -> JustFindCommand(p, command, args)
    [] src = "make"   -> MakeFindCommand(p, command, args)
    [] src \in {"npm", "bun", "pnpm", "yarn"} -> NodeFindCommand(p, src, command, args)
    [] src = "Deno"   -> DenoFindCommand(p, command, args)
    [] src = "Poetry" -> PoetryFindCommand(p, command, args)
    [] src = "uv"     -> UvFindCommand(p, command, args)
    [] src = "Cargo"  -> CargoFindCommand(p, command, args)
    [] src = "Go"     -> GoFindCommand(p, command, args)
    [] src = "Gradle" -> GradleFindCommand(p, command, args)
    [] src = "Maven"  -> MavenFindCommand(p, command, args)

(***************************************************************************)
(* Project resolver                                                        *)
(***************************************************************************)
\* a source factory answers a one-element list, or the empty list when it
\* declines
detectNodeProject(p) ==
  IF FileExists(p, "deno.json") \/ FileExists(p, "deno.jsonc") THEN <<"Deno">>
  ELSE IF FileExists(p, "bun.lockb") THEN <<"bun">>
  ELSE IF FileExists(p, "pnpm-lock.yaml") THEN <<"pnpm">>
  ELSE IF FileExists(p, "yarn.lock") THEN <<"yarn">>
  ELSE IF FileExists(p, "package-lock.json") THEN <<"npm">>
  ELSE IF FileExists(p, ".yarnrc.yml") \/ FileExists(p, ".yarnrc") THEN <<"yarn">>
  ELSE <<"npm">>

NewPoetrySource(p) ==
  IF ~FileExists(p, "poetry.lock")
     /\ ~(FileExists(p, "pyproject.toml") /\ PyContains(p, "[tool.poetry]"))
  THEN <<>> ELSE <<"Poetry">>

NewUvSource(p) ==
  IF FileExists(p, "uv.lock") \/ FileExists(p, ".uv")
     \/ (FileExists(p, "pyproject.toml") /\ PyContains(p, "[tool.uv]"))
  THEN <<"uv">> ELSE <<>>

detectPythonProject(p) ==
  IF FileExists(p, "poetry.lock") THEN NewPoetrySource(p)
  ELSE IF FileExists(p, "uv.lock") \/ FileExists(p, ".uv") THEN NewUvSource(p)
  ELSE IF PyContains(p, "[tool.poetry]") THEN NewPoetrySource(p)
  ELSE IF PyContains(p, "[tool.uv]") THEN NewUvSource(p)
  ELSE NewUvSource(p)

\* one step of the insertion sort: `key` moves left past every element of
\* strictly greater priority
RECURSIVE InsertByPriority(_, _)
InsertByPriority(sorted, key) ==
  IF sorted # <<>> /\ Priority(sorted[Len(sorted)]) > Priority(key)
  THEN Append(InsertByPriority(SubSeq(sorted, 1, Len(sorted) - 1), key),
              sorted[Len(sorted)])
  ELSE Append(sorted, key)

RECURSIVE sortSourcesByPriority(_)
sortSourcesByPriority(sources) ==
  IF Len(sources) <= 1 THEN sources
  ELSE InsertByPriority(
         sortSourcesByPriority(SubSeq(sources, 1, Len(sources) - 1)),
         sources[Len(sources)])

\* the sources of a directory in discovery order
DiscoverSources(p) ==
     (IF FileExists(p, ".mise.toml") THEN <<"mise">> ELSE <<>>)
  \o (IF FileExists(p, "justfile") \/ FileExists(p, "Justfile")
      THEN <<"just">> ELSE <<>>)
  \o (IF FileExists(p, "Makefile") \/ FileExists(p, "makefile")
      THEN <<"make">> ELSE <<>>)
  \o (IF FileExists(p, "package.json") THEN detectNodeProject(p) ELSE <<>>)
  \o (IF FileExists(p, "pyproject.toml") THEN detectPythonProject(p) ELSE <<>>)
  \o (IF FileExists(p, "Cargo.toml") THEN <<"Cargo">> ELSE <<>>)
  \o (IF FileExists(p, "go.mod") THEN <<"Go">> ELSE <<>>)
  \o (IF FileExists(p, "build.gradle") \/ FileExists(p, "build.gradle.kts")
      THEN <<"Gradle">> ELSE <<>>)
  \o (IF FileExists(p, "pom.xml") THEN <<"Maven">> ELSE <<>>)

\* the sorted sources in the opposite order
ResolveProjectReversed(p) ==
  [i \in 1..Len(DiscoverSources(p)) |->
     sortSourcesByPriority(DiscoverSources(p))[Len(DiscoverSources(p)) + 1 - i]]

\* Project.CommandSources of ResolveProject(dir)
ResolveProject(p) == sortSourcesByPriority(DiscoverSources(p))

(***************************************************************************)
(* The earlier runner layer (commandFinder), still used by                 *)
(* findNativeFixCommand through CommandRunner.FindCommand(dir).  Its task  *)
(* runners test the listing with strings.Contains.                         *)
(***************************************************************************)
detectPackageManager(p) ==
  IF FileExists(p, "bun.lockb") THEN "bun"
  ELSE IF FileExists(p, "pnpm-lock.yaml") THEN "pnpm"
  ELSE IF FileExists(p, "yarn.lock") THEN "yarn"
  ELSE IF FileExists(p, "package-lock.json") THEN "npm"
  ELSE IF FileExists(p, "deno.lock") THEN "deno"
  ELSE IF FileExists(p, "deno.json") \/ FileExists(p, "deno.jsonc") THEN "deno"
  ELSE IF FileExists(p, ".yarnrc.yml") \/ FileExists(p, ".yarnrc") THEN "yarn"
  ELSE IF FileExists(p, ".npmrc")
    THEN IF "pnpm" \in fs[p].npmrcWords THEN "pnpm" ELSE "npm"
  ELSE IF FileExists(p, "package.json") THEN "npm"
  ELSE ""

\* the first variant the listing `tasks` contains as a substring, "" if none
FirstContained(vs, tasks) ==
  FirstIn(vs, {v \in {vs[i] : i \in 1..Len(vs)} : OutputContains(tasks, v)})

miseRunner(p, command, args) ==
  LET v == FirstContained(GetCommandVariants(command), fs[p].tasks["mise"])
  IN  IF FileExists(p, ".mise.toml") /\ v # ""
      THEN Cmd("mise", <<"run", v>> \o args, p, "mise") ELSE None

justRunner(p, command, args) ==
  LET v == FirstContained(GetCommandVariants(command), fs[p].tasks["just"])
  IN  IF (FileExists(p, "justfile") \/ FileExists(p, "Justfile")) /\ v # ""
      THEN Cmd("just", <<v>> \o args, p, "just") ELSE None

\* makeRunner.hasTarget: some line of the Makefile starts with "target:"
hasTarget(p, target) ==
  (FileExists(p, "Makefile") \/ FileExists(p, "makefile"))
  /\ target \in fs[p].tasks["make"]

\* the first variant that is a target of the Makefile, "" if none
FirstTarget(p, vs) ==
  FirstIn(vs, {t \in {vs[i] : i \in 1..Len(vs)} : hasTarget(p, t)})

makeRunner(p, command, args) ==
  LET v == FirstTarget(p, GetCommandVariants(command))
  IN  IF v # "" THEN Cmd("make", <<v>> \o args, p, "make") ELSE None

\* denoRunner.findCommand for the variants vs of the command
denoRunnerVariants(p, vs, args) ==
  LET v     == FirstIn(vs, DOMAIN denoCommands)
      entry == FirstIn(EntryPoints, fs[p].files)
      tv    == FirstContained(vs, fs[p].tasks["deno"])
  IN  IF ~FileExists(p, "deno.json") /\ ~FileExists(p, "deno.jsonc")
         /\ ~FileExists(p, "deno.lock") THEN None
      ELSE IF v # ""
        THEN IF denoCommands[v] = "run" /\ entry # ""
               THEN Cmd("deno", <<"run", "--allow-all", entry>> \o args, p, "Deno")
               ELSE Cmd("deno", <<denoCommands[v]>> \o args, p, "Deno")
      ELSE IF (FileExists(p, "deno.json") \/ FileExists(p, "deno.jsonc")) /\ tv # ""
        THEN Cmd("deno", <<"task", tv>> \o args, p, "Deno")
      ELSE None

denoRunner(p, command, args) ==
  denoRunnerVariants(p, GetCommandVariants(command), args)

\* nodePackageRunner.findCommand once the loop over the variants has ended:
\* v is the variant found among the scripts ("" if none), pm the package
\* manager detected
nodePackageScript(p, pm, v, command, args) ==
  LET scriptExists == v # ""
      cmd          == IF scriptExists THEN v ELSE command
  IN  IF ~FileExists(p, "package.json") THEN None
      ELSE IF ~scriptExists /\ cmd = "typecheck" /\ FileExists(p, "tsconfig.json")
        THEN IF pm = "" THEN None
             ELSE Cmd(pm, <<"run", "tsc", "--noEmit">> \o args, p, pm)
      ELSE IF ~scriptExists \/ pm = "" THEN None
      ELSE IF pm = "deno" THEN Cmd(pm, <<"task", cmd>> \o args, p, pm)
      ELSE Cmd(pm, <<"run", cmd>> \o args, p, pm)

nodePackageRunner(p, command, args) ==
  nodePackageScript(p, detectPackageManager(p),
                    FirstIn(GetCommandVariants(command), fs[p].tasks["scripts"]),
                    command, args)

cargoRunnerCommands ==
  [build |-> "build", run |-> "run", test |-> "test", lint |-> "clippy",
   format |-> "fmt", fmt |-> "fmt", clean |-> "clean", typecheck |-> "check",
   tc |-> "check", fix |-> "fix", install |-> "install", publish |-> "publish"]

\* (Cargo.toml of the model has no [package.metadata.scripts] section)
cargoRunner(p, command, args) ==
  LET v == FirstIn(GetCommandVariants(command), DOMAIN cargoRunnerCommands)
  IN  IF FileExists(p, "Cargo.toml") /\ v # ""
      THEN Cmd("cargo", <<cargoRunnerCommands[v]>> \o args, p, "Cargo") ELSE None

goRunnerCommands ==
  [build |-> <<"build">>, run |-> <<"run", ".">>, test |-> <<"test", "./...">>,
   format |-> <<"fmt", "./...">>, fmt |-> <<"fmt", "./...">>,
   clean |-> <<"clean">>, install |-> <<"mod", "download">>,
   lint |-> <<"vet", "./...">>, typecheck |-> <<"build", "-o", "/dev/null">>,
   tc |-> <<"build", "-o", "/dev/null">>]

goRunner(p, command, args) ==
  LET v == FirstIn(GetCommandVariants(command), DOMAIN goRunnerCommands)
  IN  IF FileExists(p, "go.mod") /\ v # ""
      THEN Cmd("go", goRunnerCommands[v] \o args, p, "Go") ELSE None

poetryRunner(p, command, args) ==
  LET v == FirstIn(GetCommandVariants(command), DOMAIN poetryCommands)
  IN  IF ~FileExists(p, "poetry.lock") /\ ~FileExists(p, "pyproject.toml")
        THEN None
      ELSE IF FileExists(p, "pyproject.toml") /\ ~PyContains(p, "[tool.poetry]")
              /\ ~FileExists(p, "poetry.lock")
        THEN None
      ELSE IF v # "" THEN Cmd("poetry", poetryCommands[v] \o args, p, "Poetry")
      ELSE Cmd("poetry", <<"run", command>> \o args, p, "Poetry")

uvRunner(p, command, args) ==
  LET v     == FirstIn(GetCommandVariants(command), DOMAIN uvCommands)
      hasUv == PyContains(p, "[tool.uv]") \/ FileExists(p, "uv.lock")
               \/ FileExists(p, ".uv")
  IN  IF FileExists(p, "pyproject.toml") /\ hasUv /\ v # ""
      THEN Cmd("uv", uvCommands[v] \o args, p, "uv") ELSE None

gradleRunnerCommands ==
  [build |-> "build", run |-> "run", test |-> "test", clean |-> "clean",
   check |-> "check"]

gradleRunner(p, command, args) ==
  LET v    == FirstIn(GetCommandVariants(command), DOMAIN gradleRunnerCommands)
      exec == IF FileExists(p, "gradlew") THEN "./gradlew" ELSE "gradle"
  IN  IF (FileExists(p, "build.gradle") \/ FileExists(p, "build.gradle.kts"))
         /\ v # ""
      THEN Cmd(exec, <<gradleRunnerCommands[v]>> \o args, p, "Gradle") ELSE None

mavenRunnerCommands ==
  [build |-> "compile", run |-> "exec:java", test |-> "test",
   clean |-> "clean", install |-> "install", package |-> "package"]

mavenRunner(p, command, args) ==
  LET v    == FirstIn(GetCommandVariants(command), DOMAIN mavenRunnerCommands)
      exec == IF FileExists(p, "mvnw") THEN "./mvnw" ELSE "mvn"
  IN  IF FileExists(p, "pom.xml") /\ v # ""
      THEN Cmd(exec, <<mavenRunnerCommands[v]>> \o args, p, "Maven") ELSE None

\* the first invocation of a sequence that is not None
FirstFound(cmds) ==
  IF \E i \in 1..Len(cmds) : cmds[i] # None
  THEN cmds[CHOOSE i \in 1..Len(cmds) :
              cmds[i] # None /\ \A j \in 1..(i - 1) : cmds[j] = None]
  ELSE None

\* CommandRunner.FindCommand(dir) of the runner layer
RunnerFindCommand(p, command, args) ==
  FirstFound(<<miseRunner(p, command, args), justRunner(p, command, args),
               makeRunner(p, command, args), denoRunner(p, command, args),
               nodePackageRunner(p, command, args), cargoRunner(p, command, args),
               goRunner(p, command, args), poetryRunner(p, command, args),
               uvRunner(p, command, args), gradleRunner(p, command, args),
               mavenRunner(p, command, args)>>)

(***************************************************************************)
(* Errors                                                                  *)
(***************************************************************************)
Error(kind, verb, code, failed) ==
  [kind |-> kind, verb |-> verb, code |-> code, failed |-> failed]

Nil == Error("nil", "", 0, <<>>)
\* "no command '%s' found in current directory or project root"
NotFound(verb) == Error("NotFound", verb, 0, <<>>)
\* "no typecheck command or type checking capability found for this project"
CapabilityAbsent == Error("CapabilityAbsent", "", 0, <<>>)
\* "could not synthesize typecheck command for this project"
SynthesisFailed == Error("SynthesisFailed", "", 0, <<>>)
\* "no check, lint, typecheck, or test commands found"
NoCheckCommands == Error("NoCheckCommands", "", 0, <<>>)
\* "check failed: <names>"
CheckFailed(failed) == Error("CheckFailed", "", 0, failed)
\* "no fix, format, or lint commands found"
NoFixCommands == Error("NoFixCommands", "", 0, <<>>)
\* "fix failed: no commands succeeded"
FixFailed == Error("FixFailed", "", 0, <<>>)
\* the *exec.ExitError of cmd.Run() for exit status `status`
ExitError(status) == Error("ExitError", "", status, <<>>)

\* cmd.Run(): nil exactly when the subprocess exits with status 0
CmdRun(status) == IF status = 0 THEN Nil ELSE ExitError(status)

(***************************************************************************)
(* Resolution engine                                                       *)
(***************************************************************************)
\* the directories searched: the current directory, then the project root
\* if it is a different directory
SearchDirs == IF ProjectRoot # CurrentDir THEN <<CurrentDir, ProjectRoot>>
                                          ELSE <<CurrentDir>>

\* FindCommand of every source of a project, in the project's order
SourceCommands(srcs, p, command, args) ==
  [i \in 1..Len(srcs) |-> FindCommand(srcs[i], p, command, args)]

ProjectCommands(p, command, args) ==
  SourceCommands(ResolveProject(p), p, command, args)

\* the search with the project root searched before the current directory
SearchProjectsRootFirst(command, args) ==
  FirstFound((IF ProjectRoot # CurrentDir
              THEN ProjectCommands(ProjectRoot, command, args) ELSE <<>>)
             \o ProjectCommands(CurrentDir, command, args))

\* the loop over projects and sources of Run: the first source that answers
SearchProjects(command, args) ==
  FirstFound(ProjectCommands(CurrentDir, command, args)
             \o (IF ProjectRoot # CurrentDir
                 THEN ProjectCommands(ProjectRoot, command, args) ELSE <<>>))

hasCommand(command) == SearchProjects(command, <<>>) # None

\* the exact search skipped for the commands that have a synthesis
ExactMatchUnlessSynthesized ==
  IF Command \in {"check", "fix", "typecheck"} THEN None
  ELSE SearchProjects(Command, Args)

\* Run, first step: the search for r.Command before the switch on it
ExactMatch == SearchProjects(Command, Args)

\* a test that takes every pyproject.toml for a type-checked project
DirHasTypecheckCapabilityAnyPyproject(p) ==
  \/ FileExists(p, "tsconfig.json")
  \/ FileExists(p, "pyproject.toml")
  \/ FileExists(p, "Cargo.toml")
  \/ FileExists(p, "go.mod")

DirHasTypecheckCapability(p) ==
  \/ FileExists(p, "tsconfig.json")
  \/ (FileExists(p, "pyproject.toml")
      /\ (PyContains(p, "pyright") \/ PyContains(p, "mypy")))
  \/ FileExists(p, "Cargo.toml")
  \/ FileExists(p, "go.mod")

hasTypecheckCapability ==
  \E i \in 1..Len(SearchDirs) : DirHasTypecheckCapability(SearchDirs[i])

createTypescriptCheckCommand(p, packageManager, args) ==
  NodeTscCommand(p, packageManager, args, "tsc")

\* the TypeScript branch of synthesizeTypecheckCommand for the package
\* manager detected ("" if none)
TypescriptCheckCommand(p, packageManager, args) ==
  IF packageManager # "" THEN createTypescriptCheckCommand(p, packageManager, args)
  ELSE None

\* the last uv or Poetry source of the project, "" if none
LastPythonSource(srcs) ==
  IF \E i \in 1..Len(srcs) : srcs[i] \in {"uv", "Poetry"}
  THEN srcs[CHOOSE i \in 1..Len(srcs) :
              srcs[i] \in {"uv", "Poetry"}
              /\ \A j \in (i + 1)..Len(srcs) : srcs[j] \notin {"uv", "Poetry"}]
  ELSE ""

\* the Python package manager synthesizeTypecheckCommand detects in `p`
PythonManager(p) == LastPythonSource(ResolveProject(p))

\* the type checker invocation for package manager pm
PythonToolCommand(p, pm, args) ==
  IF PyContains(p, "pyright")
    THEN CASE pm = "uv"     -> Cmd("uv", <<"run", "pyright">> \o args, p, "pyright")
           [] pm = "Poetry" -> Cmd("poetry", <<"run", "pyright">> \o args, p, "pyright")
           [] OTHER         -> Cmd("pyright", args, p, "pyright")
  ELSE IF PyContains(p, "mypy")
    THEN CASE pm = "uv"     -> Cmd("uv", <<"run", "mypy", ".">> \o args, p, "mypy")
           [] pm = "Poetry" -> Cmd("poetry", <<"run", "mypy", ".">> \o args, p, "mypy")
           [] OTHER         -> Cmd("mypy", <<".">> \o args, p, "mypy")
  ELSE None

PythonCheckCommand(p, args) == PythonToolCommand(p, PythonManager(p), args)

\* findSourceByName: a source of the project has this name
HasSource(srcs, name) == \E i \in 1..Len(srcs) : srcs[i] = name

SourceCheckCommand(p, name, args) ==
  IF HasSource(ResolveProject(p), name)
  THEN FindCommand(name, p, "typecheck", args) ELSE None

\* the invocations synthesizeTypecheckCommand tries in directory p, in order
DirTypecheckCommands(p, args) ==
  << IF FileExists(p, "tsconfig.json")
       THEN TypescriptCheckCommand(p, detectPackageManager(p), args)
       ELSE None,
     IF FileExists(p, "pyproject.toml") THEN PythonCheckCommand(p, args) ELSE None,
     IF FileExists(p, "Cargo.toml") THEN SourceCheckCommand(p, "Cargo", args) ELSE None,
     IF FileExists(p, "go.mod") THEN SourceCheckCommand(p, "Go", args) ELSE None >>

synthesizeTypecheckCommand(args) ==
  FirstFound(DirTypecheckCommands(CurrentDir, args)
             \o (IF ProjectRoot # CurrentDir
                 THEN DirTypecheckCommands(ProjectRoot, args) ELSE <<>>))

\* The outcome of a handler that executes at most one invocation:
\* cmd is the invocation executed (None if none), err the error returned,
\* synth the synthesis policies entered.
Outcome(cmd, error, synth) == [cmd |-> cmd, err |-> error, synth |-> synth]

\* `if cmd != nil { return r.ExecuteCommand(cmd) }`, else what follows
FoundOr(cmd, status, synth, otherwise) ==
  IF cmd # None THEN Outcome(cmd, CmdRun(status), synth) ELSE otherwise

HandleTypecheckCommand(args, status) ==
  FoundOr(SearchProjects("typecheck", args), status, {"typecheck"},
    IF ~hasTypecheckCapability
    THEN Outcome(None, CapabilityAbsent, {"typecheck"})
    ELSE FoundOr(synthesizeTypecheckCommand(args), status, {"typecheck"},
                 Outcome(None, SynthesisFailed, {"typecheck"})))

\* the tail of Run once the exact search found nothing and the command is
\* not a synthesized one: retry with the normalized command
RunNormalized(command, args, status) ==
  LET normalizedCommand == NormalizeCommand(command)
  IN  FoundOr(IF normalizedCommand # command
              THEN SearchProjects(normalizedCommand, args) ELSE None,
              status, {}, Outcome(None, NotFound(command), {}))

\* Run of a runner whose command is neither check nor fix (the sub-runners
\* of the synthesis policies carry lint, typecheck, test, format, fmt)
RunCommand(command, args, status) ==
  FoundOr(SearchProjects(command, args), status, {},
          IF command = "typecheck" THEN HandleTypecheckCommand(args, status)
          ELSE RunNormalized(command, args, status))

\* a record of one executed subprocess
Executed(verb, cmd, status) == [verb |-> verb, cmd |-> cmd, status |-> status]

\* a log where the handler executes its invocation a second time
LoggedTwice(verb, o, status) ==
  IF o.cmd # None
  THEN Append(Append(log, Executed(verb, o.cmd, status)),
              Executed(verb, o.cmd, status))
  ELSE log

\* the log after a handler with outcome `o` ran for `verb`
Logged(verb, o, status) ==
  IF o.cmd # None THEN Append(log, Executed(verb, o.cmd, status)) ELSE log

(***************************************************************************)
(* check                                                                   *)
(***************************************************************************)
\* a list that runs the tests before anything else
checkCommandsTestFirst == <<"test", "lint", "typecheck">>

checkCommands == <<"lint", "typecheck", "test">>

findNativeCheckCommand(p, args) ==
  IF FileExists(p, ".mise.toml") /\ OutputContains(fs[p].tasks["mise"], "check")
    THEN Cmd("mise", <<"run", "check">> \o args, CurrentDir, "mise")
  ELSE IF (FileExists(p, "justfile") \/ FileExists(p, "Justfile"))
          /\ OutputContains(fs[p].tasks["just"], "check")
    THEN Cmd("just", <<"check">> \o args, CurrentDir, "just")
  ELSE IF hasTarget(p, "check")
    THEN Cmd("make", <<"check">> \o args, CurrentDir, "make")
  ELSE IF FileExists(p, "package.json") /\ "check" \in fs[p].tasks["scripts"]
          /\ detectPackageManager(p) # ""
    THEN Cmd(detectPackageManager(p), <<"run", "check">> \o args, CurrentDir,
             detectPackageManager(p))
  ELSE None

NativeCheckCommand(args) ==
  FirstFound([i \in 1..Len(SearchDirs) |-> findNativeCheckCommand(SearchDirs[i], args)])

(***************************************************************************)
(* fix                                                                     *)
(***************************************************************************)
supportsLintFixIn(p) ==
  \/ (FileExists(p, "package.json") /\ PkgContains(p, "eslint"))
  \/ (FileExists(p, "pyproject.toml") /\ PyContains(p, "ruff"))

\* the loop over dirs returns at the first directory that decides: true for
\* eslint or ruff, false for a Cargo.toml
RECURSIVE supportsLintFixFrom(_)
supportsLintFixFrom(i) ==
  IF i > Len(SearchDirs) THEN FALSE
  ELSE IF supportsLintFixIn(SearchDirs[i]) THEN TRUE
  ELSE IF FileExists(SearchDirs[i], "Cargo.toml") THEN FALSE
  ELSE supportsLintFixFrom(i + 1)

\* a test that forgets the Go projects
supportsLintFixGoToo == supportsLintFixFrom(1)

supportsLintFix ==
  IF FileExists(CurrentDir, "go.mod") \/ FileExists(ProjectRoot, "go.mod")
  THEN FALSE ELSE supportsLintFixFrom(1)

FixCommand(command, args) == [command |-> command, args |-> args]

fixCommands ==
  <<FixCommand("format", <<>>), FixCommand("fmt", <<>>)>>
  \o (IF supportsLintFix THEN <<FixCommand("lint", <<"--fix">>)>> ELSE <<>>)

findNativeFixCommand(p, args) == RunnerFindCommand(p, "fix", args)

NativeFixCommand(args) ==
  FirstFound([i \in 1..Len(SearchDirs) |-> findNativeFixCommand(SearchDirs[i], args)])

cmdDisplay(fc) ==
  IF Len(fc.args) > 0 THEN <<fc.command>> \o fc.args ELSE <<fc.command>>

(***************************************************************************)
(* Directories the runs start from                                         *)
(***************************************************************************)
NoTasks == [t \in TaskFiles |-> {}]

Dir(files, pyWords, pkgWords, tasks) ==
  [files |-> files, pyWords |-> pyWords, pkgWords |-> pkgWords,
   npmrcWords |-> {}, tasks |-> tasks]

TaskSets == {ts \in SUBSET TaskNames : Cardinality(ts) <= MaxTasks}

\* manifests of the language ecosystems, with the words they mention
LanguageDirs ==
  { Dir({}, {}, {}, NoTasks),
    Dir({"Cargo.toml"}, {}, {}, NoTasks),
    Dir({"go.mod"}, {}, {}, NoTasks),
    Dir({"pyproject.toml", "uv.lock"}, {}, {}, NoTasks),
    Dir({"pyproject.toml", "uv.lock"}, {"ruff"}, {}, NoTasks),
    Dir({"pyproject.toml", "uv.lock"}, {"pyright"}, {}, NoTasks),
    Dir({"pyproject.toml"}, {"mypy"}, {}, NoTasks),
    Dir({"pyproject.toml"}, {"pyright"}, {}, NoTasks),
    Dir({"pyproject.toml"}, {}, {}, NoTasks),
    Dir({"pyproject.toml", "poetry.lock"}, {}, {}, NoTasks),
    Dir({"tsconfig.json"}, {}, {}, NoTasks),
    Dir({"package.json", "tsconfig.json"}, {}, {}, NoTasks),
    Dir({"package.json", "deno.json"}, {}, {}, NoTasks),
    Dir({"build.gradle"}, {}, {}, NoTasks),
    Dir({"pom.xml"}, {}, {}, NoTasks) }

\* a directory of LanguageDirs with a Makefile added
WithMakefile(d, ts) ==
  [d EXCEPT !.files = @ \cup {"Makefile"}, !.tasks = [@ EXCEPT !["make"] = ts]]

MakeDirs == {WithMakefile(d, ts) : d \in LanguageDirs, ts \in TaskSets}

MiseDirs ==
  {Dir({".mise.toml"}, {}, {}, [NoTasks EXCEPT !["mise"] = ts]) : ts \in TaskSets}

NodeDirs ==
  {Dir({"package.json"}, {}, w, [NoTasks EXCEPT !["scripts"] = ts]) :
     w \in {{}, {"eslint"}}, ts \in TaskSets}

\* directories that hold the manifests of several ecosystems
MixedDirs ==
  { Dir({"Cargo.toml", "pyproject.toml", "uv.lock"}, {}, {}, NoTasks),
    Dir({"go.mod", "pyproject.toml", "poetry.lock"}, {}, {}, NoTasks),
    Dir({"package.json", "Cargo.toml", "go.mod"}, {}, {}, NoTasks),
    Dir({"build.gradle", "pom.xml"}, {}, {}, NoTasks),
    Dir({"build.gradle", "Cargo.toml"}, {}, {}, NoTasks),
    Dir({"pom.xml", "go.mod"}, {}, {}, NoTasks),
    Dir({"go.mod", "package.json"}, {}, {"eslint"},
        [NoTasks EXCEPT !["scripts"] = {"lint"}]),
    Dir({"go.mod", "pyproject.toml"}, {"ruff"}, {},
        [NoTasks EXCEPT !["make"] = {"lint"}]),
    Dir({".mise.toml", "justfile", "Makefile", "Cargo.toml", "build.gradle",
         "pom.xml"}, {}, {},
        [NoTasks EXCEPT !["just"] = {"lint"}, !["make"] = {"lint", "test"}]),
    Dir({"Makefile", "package.json", "pyproject.toml", "uv.lock", "Cargo.toml",
         "go.mod", "build.gradle", "pom.xml"}, {}, {},
        [NoTasks EXCEPT !["make"] = {"lint"}]) }

\* the directories a run may start in when the project root is the current
\* directory
Dirs == LanguageDirs \cup MakeDirs \cup MiseDirs \cup NodeDirs \cup MixedDirs

\* the directories of a run whose project root is another directory
PairDirs ==
  LanguageDirs
  \cup {WithMakefile(Dir({}, {}, {}, NoTasks), {t}) : t \in TaskNames}

\* what the user types after `cmdr`
TypedVerbs == {"check", "fix", "typecheck", "tc", "format", "fmt", "f",
               "test", "t", "lint", "build", "deploy"}

ArgLists == {<<>>} \cup (IF MaxArgs >= 1 THEN {<<"-v">>, <<"-i">>} ELSE {})
                   \cup (IF MaxArgs >= 2 THEN {<<"-v", "-x">>} ELSE {})
                   \cup (IF MaxArgs >= 3 THEN {<<"-v", "-x", "-v">>} ELSE {})

Statuses == 0..MaxStatus

(***************************************************************************)
(* The run of one `cmdr <verb> [args]` process                             *)
(***************************************************************************)
\* the command list cache of a process that has not listed anything, and no
\* goroutine calling it
NoCache ==
  /\ commandListCache = <<>>
  /\ listCalls = <<>>
  /\ goroutines = <<>>

\* no Run on the call stack, no interactive session
NoAux ==
  /\ stack = <<>>
  /\ session = <<>>
  /\ stdin = <<>>
  /\ probes = <<>>

Init ==
  /\ \/ /\ ProjectRoot = "cwd"
        /\ \E d \in Dirs : fs = [p \in Paths |-> d]
     \/ /\ ProjectRoot = "root"
        /\ \E d \in PairDirs, e \in PairDirs : fs = [cwd |-> d, root |-> e]
  /\ typed = ""
  /\ Command = ""
  /\ Args = <<>>
  /\ pc = "start"
  /\ idx = 0
  /\ hasErrors = FALSE
  /\ failedCommands = <<>>
  /\ executedCommands = <<>>
  /\ executedTypes = FALSE
  /\ log = <<>>
  /\ entered = {}
  /\ err = Nil
  /\ exitCode = -1
  /\ variants = <<>>
  /\ tree = <<>>
  /\ startDir = <<>>
  /\ current = <<>>
  /\ osArgs = <<>>
  /\ NoCache
  /\ NoAux

\* the flags main looks for in every argument before it looks for the command
InteractiveFlags == {"--interactive", "-i"}

\* main: an interactive flag anywhere on the command line starts the
\* interactive session; otherwise the first non-flag argument is the
\* command, the rest its arguments; New normalizes the command; Init finds
\* the directories
Main(verb, args) ==
  /\ pc = "start"
  /\ osArgs' = <<verb>> \o args
  /\ IF \E i \in 1..Len(args) : args[i] \in InteractiveFlags
       THEN /\ pc' = "interactive"
            /\ UNCHANGED <<typed, Command, Args>>
       ELSE /\ typed' = verb
            /\ Command' = NormalizeCommand(verb)
            /\ Args' = args
            /\ pc' = "run"
  /\ UNCHANGED <<auxVars, cacheVars, variants, tree, startDir, current, fs, ProjectRoot, idx, hasErrors, failedCommands,
                 executedCommands, executedTypes, log, entered, err, exitCode>>

\* a handler that runs at most one invocation returns to main
Return(o, status) ==
  /\ log' = Logged(Command, o, status)
  /\ err' = o.err
  /\ entered' = entered \cup o.synth
  /\ pc' = "exit"
  /\ UNCHANGED <<auxVars, cacheVars, osArgs, variants, tree, startDir, current, fs, ProjectRoot, typed, Command, Args, idx, hasErrors,
                 failedCommands, executedCommands, executedTypes, exitCode>>

\* Run, exact search: a source answers and its invocation is executed
RunExact(status) ==
  /\ pc = "run"
  /\ ExactMatch # None
  /\ Return(Outcome(ExactMatch, CmdRun(status), {}), status)

\* Run, case "typecheck"
RunTypecheck(status) ==
  /\ pc = "run"
  /\ ExactMatch = None
  /\ Command = "typecheck"
  /\ Return(HandleTypecheckCommand(Args, status), status)

\* Run, no synthesized command: the normalized retry, else not found
RunFallback(status) ==
  /\ pc = "run"
  /\ ExactMatch = None
  /\ Command \notin {"check", "fix", "typecheck"}
  /\ Return(RunNormalized(Command, Args, status), status)

\* Run, case "check": HandleCheckCommand up to the loop of
\* synthesizeCheckCommand
RunCheck(status) ==
  /\ pc = "run"
  /\ ExactMatch = None
  /\ Command = "check"
  /\ IF NativeCheckCommand(Args) # None
       THEN Return(Outcome(NativeCheckCommand(Args), CmdRun(status), {"check"}),
                   status)
     ELSE IF ~\E i \in 1..Len(checkCommands) : hasCommand(checkCommands[i])
       THEN Return(Outcome(None, NoCheckCommands, {"check", "synthesizeCheck"}),
                   status)
     ELSE /\ pc' = "check"
          /\ idx' = 1
          /\ entered' = entered \cup {"check", "synthesizeCheck"}
          /\ UNCHANGED <<auxVars, cacheVars, osArgs, variants, tree, startDir, current, fs, ProjectRoot, typed, Command, Args, hasErrors,
                         failedCommands, executedCommands, executedTypes, log,
                         err, exitCode>>

\* a loop that also leaves out every constituent after a failure
SkipConstituentAfterFailure(cmdName) ==
  \/ hasErrors
  \/ (cmdName = "typecheck" /\ ~hasTypecheckCapability)
  \/ ~hasCommand(cmdName)

\* the two `continue` conditions of the loop of synthesizeCheckCommand
SkipConstituent(cmdName) ==
  \/ (cmdName = "typecheck" /\ ~hasTypecheckCapability)
  \/ ~hasCommand(cmdName)

\* one iteration of the loop of synthesizeCheckCommand
CheckStep(status) ==
  /\ pc = "check"
  /\ idx <= Len(checkCommands)
  /\ LET cmdName == checkCommands[idx]
     IN  IF SkipConstituent(cmdName)
         THEN UNCHANGED <<hasErrors, failedCommands, log, entered>>
         ELSE \E o \in {RunCommand(cmdName, Args, status)} :
              /\ log' = Logged(cmdName, o, status)
              /\ entered' = entered \cup o.synth
              /\ hasErrors' = (hasErrors \/ o.err # Nil)
              /\ failedCommands' = IF o.err # Nil
                                   THEN Append(failedCommands, cmdName)
                                   ELSE failedCommands
  /\ idx' = idx + 1
  /\ UNCHANGED <<auxVars, cacheVars, osArgs, variants, tree, startDir, current, fs, ProjectRoot, typed, Command, Args, pc, executedCommands,
                 executedTypes, err, exitCode>>

\* the end of synthesizeCheckCommand
CheckReturn ==
  /\ pc = "check"
  /\ idx > Len(checkCommands)
  /\ err' = IF hasErrors THEN CheckFailed(failedCommands) ELSE Nil
  /\ pc' = "exit"
  /\ UNCHANGED <<auxVars, cacheVars, osArgs, variants, tree, startDir, current, fs, ProjectRoot, typed, Command, Args, idx, hasErrors,
                 failedCommands, executedCommands, executedTypes, log, entered,
                 exitCode>>

\* Run, case "fix": HandleFixCommand up to the loop of synthesizeFixCommand
RunFix(status) ==
  /\ pc = "run"
  /\ ExactMatch = None
  /\ Command = "fix"
  /\ IF NativeFixCommand(Args) # None
       THEN Return(Outcome(NativeFixCommand(Args), CmdRun(status), {"fix"}),
                   status)
     ELSE IF ~\E i \in 1..Len(fixCommands) : hasCommand(fixCommands[i].command)
       THEN Return(Outcome(None, NoFixCommands, {"fix", "synthesizeFix"}), status)
     ELSE /\ pc' = "fix"
          /\ idx' = 1
          /\ entered' = entered \cup {"fix", "synthesizeFix"}
          /\ UNCHANGED <<auxVars, cacheVars, osArgs, variants, tree, startDir, current, fs, ProjectRoot, typed, Command, Args, hasErrors,
                         failedCommands, executedCommands, executedTypes, log,
                         err, exitCode>>

\* one iteration of the loop of synthesizeFixCommand
FixStep(status) ==
  /\ pc = "fix"
  /\ idx <= Len(fixCommands)
  /\ \E fc \in {fixCommands[idx]} :
         IF ~hasCommand(fc.command)
            \/ (fc.command \in {"format", "fmt"} /\ executedTypes)
         THEN UNCHANGED <<hasErrors, executedCommands, executedTypes, log, entered>>
         ELSE \E o \in {RunCommand(fc.command, fc.args \o Args, status)} :
              /\ log' = Logged(fc.command, o, status)
              /\ entered' = entered \cup o.synth
              /\ hasErrors' = (hasErrors \/ o.err # Nil)
              /\ executedCommands' = IF o.err = Nil
                                     THEN Append(executedCommands, cmdDisplay(fc))
                                     ELSE executedCommands
              /\ executedTypes' = (executedTypes
                                   \/ (o.err = Nil /\ fc.command \in {"format", "fmt"}))
  /\ idx' = idx + 1
  /\ UNCHANGED <<auxVars, cacheVars, osArgs, variants, tree, startDir, current, fs, ProjectRoot, typed, Command, Args, pc, failedCommands,
                 err, exitCode>>

\* a result that is an error as soon as one constituent failed
fixResultAnyFailure == IF hasErrors THEN FixFailed ELSE Nil

\* the result of synthesizeFixCommand once its loop is over
fixResult == IF Len(executedCommands) = 0 /\ hasErrors THEN FixFailed ELSE Nil

\* the end of synthesizeFixCommand
FixReturn ==
  /\ pc = "fix"
  /\ idx > Len(fixCommands)
  /\ err' = fixResult
  /\ pc' = "exit"
  /\ UNCHANGED <<auxVars, cacheVars, osArgs, variants, tree, startDir, current, fs, ProjectRoot, typed, Command, Args, idx, hasErrors,
                 failedCommands, executedCommands, executedTypes, log, entered,
                 exitCode>>

\* the exit status main gives the error of Run
ExitStatus(error) == IF error # Nil THEN 1 ELSE 0

\* main after runner.Run(): os.Exit(1) on an error, else return
Exit ==
  /\ pc = "exit"
  /\ exitCode' = ExitStatus(err)
  /\ pc' = "done"
  /\ UNCHANGED <<auxVars, cacheVars, osArgs, variants, tree, startDir, current, fs, ProjectRoot, typed, Command, Args, idx, hasErrors,
                 failedCommands, executedCommands, executedTypes, log, entered,
                 err>>

\* main in interactive mode: RunInteractive returns nil when the user quits,
\* an error when the session cannot be initialized; main exits 0 or 1
Interactive(failed) ==
  /\ pc = "interactive"
  /\ exitCode' = IF failed THEN 1 ELSE 0
  /\ pc' = "done"
  /\ UNCHANGED <<auxVars, cacheVars, osArgs, variants, tree, startDir, current, fs, ProjectRoot, typed, Command, Args, idx,
                 hasErrors, failedCommands, executedCommands, executedTypes, log,
                 entered, err>>

Next ==
  \/ \E verb \in TypedVerbs, args \in ArgLists : Main(verb, args)
  \/ \E failed \in BOOLEAN : Interactive(failed)
  \/ \E status \in Statuses : RunExact(status)
  \/ \E status \in Statuses : RunTypecheck(status)
  \/ \E status \in Statuses : RunFallback(status)
  \/ \E status \in Statuses : RunCheck(status)
  \/ \E status \in Statuses : CheckStep(status)
  \/ CheckReturn
  \/ \E status \in Statuses : RunFix(status)
  \/ \E status \in Statuses : FixStep(status)
  \/ FixReturn
  \/ Exit

Spec == Init /\ [][Next]_vars

(***************************************************************************)
(* The alias table on its own: NormalizeCommand as New applies it to the   *)
(* verb typed, applied once more to its own result, and                    *)
(* GetCommandVariants as a source applies it.                              *)
(***************************************************************************)
\* the verbs tried: every key of the two tables, every variant, and
\* spellings that are in neither table
AliasVerbs ==
  {"format", "fmt", "f", "run", "r", "dev", "serve", "s", "start", "build",
   "b", "lint", "l", "test", "t", "tests", "fix", "format-fix", "lint-fix",
   "clean", "install", "setup", "check", "typecheck", "type-check", "types",
   "tc", "deploy", "unknown", "Format", "fm", ""}

\* the state of a run that has not started, in an empty directory
NoRun ==
  /\ fs = [p \in Paths |-> Dir({}, {}, {}, NoTasks)]
  /\ Args = <<>>
  /\ idx = 0
  /\ hasErrors = FALSE
  /\ failedCommands = <<>>
  /\ executedCommands = <<>>
  /\ executedTypes = FALSE
  /\ log = <<>>
  /\ entered = {}
  /\ err = Nil
  /\ exitCode = -1
  /\ osArgs = <<>>

AliasInit ==
  /\ NoRun
  /\ NoCache
  /\ NoAux
  /\ ProjectRoot = "cwd"
  /\ typed \in AliasVerbs
  /\ Command = ""
  /\ variants = <<>>
  /\ pc = "alias"
  /\ tree = <<>>
  /\ startDir = <<>>
  /\ current = <<>>

\* a canonicalization that maps dev, serve and start to run
NormalizeRunFamily ==
  /\ pc = "alias"
  /\ Command' = IF typed \in {"dev", "serve", "start"} THEN "run"
                ELSE NormalizeCommand(typed)
  /\ pc' = "normalized"
  /\ UNCHANGED <<fs, ProjectRoot, typed, Args, idx, hasErrors, failedCommands,
                 executedCommands, executedTypes, log, entered, err, exitCode,
                 variants, tree, startDir, current, osArgs, cacheVars, auxVars>>

\* New: Command is the normalized verb
Normalize ==
  /\ pc = "alias"
  /\ Command' = NormalizeCommand(typed)
  /\ pc' = "normalized"
  /\ UNCHANGED <<fs, ProjectRoot, typed, Args, idx, hasErrors, failedCommands,
                 executedCommands, executedTypes, log, entered, err, exitCode,
                 variants, tree, startDir, current, osArgs, cacheVars, auxVars>>

\* Run, normalized retry: NormalizeCommand(r.Command)
Renormalize ==
  /\ pc = "normalized"
  /\ Command' = NormalizeCommand(Command)
  /\ pc' = "renormalized"
  /\ UNCHANGED <<fs, ProjectRoot, typed, Args, idx, hasErrors, failedCommands,
                 executedCommands, executedTypes, log, entered, err, exitCode,
                 variants, tree, startDir, current, osArgs, cacheVars, auxVars>>

\* the variants of the normalized verb instead of the verb itself
VariantsOfCanonical ==
  /\ pc = "alias"
  /\ variants' = GetCommandVariants(NormalizeCommand(typed))
  /\ pc' = "variants"
  /\ UNCHANGED <<fs, ProjectRoot, typed, Command, Args, idx, hasErrors,
                 failedCommands, executedCommands, executedTypes, log, entered,
                 err, exitCode, tree, startDir, current, osArgs, cacheVars, auxVars>>

\* a source's FindCommand: the variants of the verb in the order tried
Variants ==
  /\ pc = "alias"
  /\ variants' = GetCommandVariants(typed)
  /\ pc' = "variants"
  /\ UNCHANGED <<fs, ProjectRoot, typed, Command, Args, idx, hasErrors,
                 failedCommands, executedCommands, executedTypes, log, entered,
                 err, exitCode, tree, startDir, current, osArgs, cacheVars, auxVars>>

\* a source's FindCommand called by Run with the command New stored: the
\* variants of the normalized verb
FindCommandVariants ==
  /\ pc = "normalized"
  /\ variants' = GetCommandVariants(Command)
  /\ pc' = "probing"
  /\ UNCHANGED <<fs, ProjectRoot, typed, Command, Args, idx, hasErrors,
                 failedCommands, executedCommands, executedTypes, log, entered,
                 err, exitCode, tree, startDir, current, osArgs, cacheVars, auxVars>>

AliasNext == Normalize \/ Renormalize \/ Variants \/ FindCommandVariants

AliasSpec == AliasInit /\ [][AliasNext]_vars

(***************************************************************************)
(* FindProjectRoot on its own: the walk from a directory up to the         *)
(* filesystem root.  A path is the sequence of its components, the root    *)
(* the empty sequence; tree[k + 1] holds the entries of the ancestor of    *)
(* startDir that has k components.                                         *)
(***************************************************************************)
\* the entries a directory on the path may hold
Entries == {".git", ".jj", "go.mod"}

\* the start directories: k components below the filesystem root
StartDirs == {[i \in 1..k |-> i] : k \in 0..MaxDepth}

\* filepath.Dir: the path without its last component; the root is its own
\* parent
FilepathDir(path) ==
  IF path = <<>> THEN <<>> ELSE SubSeq(path, 1, Len(path) - 1)

\* FileExists(filepath.Join(path, name))
EntryExists(path, name) == name \in tree[Len(path) + 1]

RootInit ==
  /\ NoRun
  /\ NoCache
  /\ NoAux
  /\ typed = ""
  /\ Command = ""
  /\ variants = <<>>
  /\ startDir \in StartDirs
  /\ tree \in [1..(Len(startDir) + 1) -> SUBSET Entries]
  /\ current = <<>>
  /\ ProjectRoot = <<>>
  /\ pc = "init"

\* CommandRunner.Init calls FindProjectRoot(cwd); `current := dir`
EnterFindProjectRoot ==
  /\ pc = "init"
  /\ current' = startDir
  /\ pc' = "walk"
  /\ UNCHANGED <<fs, ProjectRoot, typed, Command, Args, idx, hasErrors,
                 failedCommands, executedCommands, executedTypes, log, entered,
                 err, exitCode, variants, tree, startDir, osArgs, cacheVars, auxVars>>

\* a test that knows the Git marker only
HasMarkerGitOnly(path) == EntryExists(path, ".git")

\* the test of the loop: the directory holds `.jj` or `.git`
HasMarker(path) == EntryExists(path, ".jj") \/ EntryExists(path, ".git")

\* one iteration of the loop of FindProjectRoot, and the return after it
WalkUp ==
  /\ pc = "walk"
  /\ IF HasMarker(current)
       THEN /\ ProjectRoot' = current
            /\ pc' = "returned"
            /\ UNCHANGED current
     ELSE IF FilepathDir(current) = current
       THEN /\ ProjectRoot' = startDir
            /\ pc' = "returned"
            /\ UNCHANGED current
     ELSE /\ current' = FilepathDir(current)
          /\ UNCHANGED <<ProjectRoot, pc>>
  /\ UNCHANGED <<fs, typed, Command, Args, idx, hasErrors, failedCommands,
                 executedCommands, executedTypes, log, entered, err, exitCode,
                 variants, tree, startDir, osArgs, cacheVars, auxVars>>

RootNext == EnterFindProjectRoot \/ WalkUp

\* the loop is sequential code: a step that can be taken is taken
RootSpec == RootInit /\ [][RootNext]_vars /\ WF_vars(RootNext)

(***************************************************************************)
(* The command list cache on its own: goroutines of one process call       *)
(* ListCommands on the mise and make sources of the current directory      *)
(* while the task files are edited.  The map is read under RLock and       *)
(* written under Lock, so the lookup and the store are one step each; the  *)
(* list function runs between them, outside any lock.                      *)
(***************************************************************************)
\* the sources whose listing goes through getCachedCommands
CachedSources == {"mise", "make"}

\* baseSource.cacheKey: the source name and the directory
cacheKey(name, p) == <<name, p>>

\* a goroutine between two calls, after `calls` calls, the last one for `key`
\* with result `result`
Goroutine(at, key, commands, result, calls) ==
  [pc |-> at, key |-> key, commands |-> commands, result |-> result,
   calls |-> calls]

\* a map with the entry for key k set to v
Store(map, k, v) ==
  [x \in DOMAIN map \cup {k} |-> IF x = k THEN v ELSE map[x]]

\* how often the list function ran for key k
ListCallsOf(k) == IF k \in DOMAIN listCalls THEN listCalls[k] ELSE 0

CacheInit ==
  /\ NoRun
  /\ NoAux
  /\ ProjectRoot = "cwd"
  /\ typed = ""
  /\ Command = ""
  /\ pc = "cache"
  /\ variants = <<>>
  /\ tree = <<>>
  /\ startDir = <<>>
  /\ current = <<>>
  /\ commandListCache = <<>>
  /\ listCalls = <<>>
  /\ \E n \in 1..MaxGoroutines :
        goroutines = [g \in 1..n |-> Goroutine("idle", <<>>, {}, {}, 0)]

\* the task file of a source is written: the task `test` is added to it or
\* removed from it
EditTaskFile(name) ==
  /\ fs' = [fs EXCEPT ![CurrentDir].tasks[name] =
                        IF "test" \in @ THEN @ \ {"test"} ELSE @ \cup {"test"}]
  /\ UNCHANGED <<ProjectRoot, typed, Command, Args, pc, idx, hasErrors,
                 failedCommands, executedCommands, executedTypes, log, entered,
                 err, exitCode, variants, tree, startDir, current, osArgs, auxVars,
                 cacheVars>>

\* a lookup that never finds the entry
CacheLookupAlwaysMiss(g, name) ==
  /\ goroutines[g].pc = "idle"
  /\ goroutines[g].calls < MaxCalls
  /\ goroutines' =
       [goroutines EXCEPT ![g] =
          Goroutine("miss", cacheKey(name, CurrentDir), {}, {}, @.calls + 1)]
  /\ UNCHANGED <<fs, ProjectRoot, typed, Command, Args, pc, idx, hasErrors,
                 failedCommands, executedCommands, executedTypes, log, entered,
                 err, exitCode, variants, tree, startDir, current, osArgs, auxVars,
                 commandListCache, listCalls>>

\* ListCommands (FindCommand starts with it) calls getCachedCommands, whose
\* first part reads the map under RLock: the cached listing is returned, or
\* the caller goes on to the list function
CacheLookup(g, name) ==
  /\ goroutines[g].pc = "idle"
  /\ goroutines[g].calls < MaxCalls
  /\ LET k == cacheKey(name, CurrentDir)
     IN  goroutines' =
           [goroutines EXCEPT ![g] =
              IF k \in DOMAIN commandListCache
              THEN Goroutine("idle", k, {}, commandListCache[k], @.calls + 1)
              ELSE Goroutine("miss", k, {}, {}, @.calls + 1)]
  /\ UNCHANGED <<fs, ProjectRoot, typed, Command, Args, pc, idx, hasErrors,
                 failedCommands, executedCommands, executedTypes, log, entered,
                 err, exitCode, variants, tree, startDir, current, osArgs, auxVars,
                 commandListCache, listCalls>>

\* `commands := listFunc()`: the tool lists the tasks the task file defines
\* now
ListFunc(g) ==
  /\ goroutines[g].pc = "miss"
  /\ LET k == goroutines[g].key
     IN  /\ goroutines' = [goroutines EXCEPT
                             ![g].pc = "listed",
                             ![g].commands = fs[k[2]].tasks[k[1]]]
         /\ listCalls' = Store(listCalls, k, ListCallsOf(k) + 1)
  /\ UNCHANGED <<fs, ProjectRoot, typed, Command, Args, pc, idx, hasErrors,
                 failedCommands, executedCommands, executedTypes, log, entered,
                 err, exitCode, variants, tree, startDir, current, osArgs, auxVars,
                 commandListCache>>

\* the last part of getCachedCommands: the listing is stored under Lock and
\* returned
CacheStore(g) ==
  /\ goroutines[g].pc = "listed"
  /\ commandListCache' =
       Store(commandListCache, goroutines[g].key, goroutines[g].commands)
  /\ goroutines' = [goroutines EXCEPT ![g].pc = "idle",
                                      ![g].result = goroutines[g].commands]
  /\ UNCHANGED <<fs, ProjectRoot, typed, Command, Args, pc, idx, hasErrors,
                 failedCommands, executedCommands, executedTypes, log, entered,
                 err, exitCode, variants, tree, startDir, current, osArgs, auxVars,
                 listCalls>>

CacheNext ==
  \/ \E name \in CachedSources : EditTaskFile(name)
  \/ \E g \in DOMAIN goroutines, name \in CachedSources : CacheLookup(g, name)
  \/ \E g \in DOMAIN goroutines : ListFunc(g)
  \/ \E g \in DOMAIN goroutines : CacheStore(g)

CacheSpec == CacheInit /\ [][CacheNext]_vars

(***************************************************************************)
(* The call stack of Run: a runner whose Run has not returned yet is a     *)
(* frame; the loops of the synthesis policies call Run of a sub-runner.    *)
(* The directories do not change while Run executes, so what its searches  *)
(* find is computed once, when the process starts.                         *)
(***************************************************************************)
\* the verbs a runner is built with
RunnerVerbs == TypedVerbs \cup {NormalizeCommand(v) : v \in TypedVerbs}

\* the answers of the searches Run and its handlers make
Probes ==
  [exact       |-> [v \in RunnerVerbs |-> SearchProjects(v, <<>>) # None],
   retry       |-> [v \in RunnerVerbs |->
                      /\ NormalizeCommand(v) # v
                      /\ SearchProjects(NormalizeCommand(v), <<>>) # None],
   capability  |-> hasTypecheckCapability,
   synthesized |-> synthesizeTypecheckCommand(<<>>) # None,
   nativeCheck |-> NativeCheckCommand(<<>>) # None,
   nativeFix   |-> NativeFixCommand(<<>>) # None,
   lintFix     |-> supportsLintFix]

\* a runner inside Run: `at` is "run" before the switch on the command,
\* "check" or "fix" inside the loop of a synthesis policy; the other fields
\* are the locals of that loop
Frame(command, at, i, errors, failed, executed, formatted) ==
  [Command |-> command, at |-> at, idx |-> i, hasErrors |-> errors,
   failedCommands |-> failed, executedCommands |-> executed,
   executedTypes |-> formatted]

\* a runner that enters Run
Entering(command) == Frame(command, "run", 0, FALSE, <<>>, <<>>, FALSE)

\* a sub-runner that carries the command of the runner that creates it
subRunnerOfCaller(r, cmdName) == Entering(r.Command)

\* the sub-runner a synthesis loop of runner r creates for cmdName
subRunner(r, cmdName) == Entering(cmdName)

CallInit ==
  /\ \/ /\ ProjectRoot = "cwd"
        /\ \E d \in Dirs : fs = [p \in Paths |-> d]
     \/ /\ ProjectRoot = "root"
        /\ \E d \in PairDirs, e \in PairDirs : fs = [cwd |-> d, root |-> e]
  /\ probes = Probes
  /\ \E verb \in RunnerVerbs : stack = <<Entering(verb)>>
  /\ typed = ""
  /\ Command = ""
  /\ Args = <<>>
  /\ pc = "call"
  /\ idx = 0
  /\ hasErrors = FALSE
  /\ failedCommands = <<>>
  /\ executedCommands = <<>>
  /\ executedTypes = FALSE
  /\ log = <<>>
  /\ entered = {}
  /\ err = Nil
  /\ exitCode = -1
  /\ variants = <<>>
  /\ tree = <<>>
  /\ startDir = <<>>
  /\ current = <<>>
  /\ osArgs = <<>>
  /\ session = <<>>
  /\ stdin = <<>>
  /\ NoCache

\* the variables Run leaves alone while the stack changes
callFrame == <<fs, ProjectRoot, typed, Command, Args, pc, idx, hasErrors,
               failedCommands, executedCommands, executedTypes, log, exitCode,
               variants, tree, startDir, current, osArgs, session, stdin,
               probes, cacheVars>>

\* the runner whose Run is executing
Top == stack[Len(stack)]

\* the runners below it
Callers == SubSeq(stack, 1, Len(stack) - 1)

\* the constituents of the synthesis loop runner r is in
LoopCommands(r) ==
  IF r.at = "check" THEN checkCommands
  ELSE <<"format", "fmt">> \o (IF probes.lintFix THEN <<"lint">> ELSE <<>>)

\* the arguments the fix loop adds to a constituent
LoopArgs(r) == IF r.at = "fix" /\ LoopCommands(r)[r.idx] = "lint"
               THEN <<"--fix">> ELSE <<>>

\* the loop of a synthesis policy after `subRunner.Run()` returned `error`
\* for the command at its index
Resume(r, error) ==
  IF r.at = "check"
  THEN [r EXCEPT !.idx = @ + 1,
                 !.hasErrors = (@ \/ error # Nil),
                 !.failedCommands = IF error # Nil
                                    THEN Append(@, LoopCommands(r)[r.idx]) ELSE @]
  ELSE [r EXCEPT !.idx = @ + 1,
                 !.hasErrors = (@ \/ error # Nil),
                 !.executedCommands =
                    IF error = Nil
                    THEN Append(@, <<LoopCommands(r)[r.idx]>> \o LoopArgs(r))
                    ELSE @,
                 !.executedTypes = (@ \/ (error = Nil /\ LoopCommands(r)[r.idx]
                                                          \in {"format", "fmt"}))]

\* Run of the top runner returns `error` to the loop that called it, or to
\* the function that built the runner
ReturnError(error, synth) ==
  /\ err' = error
  /\ entered' = entered \cup synth
  /\ stack' = IF Callers = <<>> THEN <<>>
              ELSE [Callers EXCEPT ![Len(Callers)] = Resume(@, error)]
  /\ UNCHANGED callFrame

\* Run, exact search: a source answers and its invocation is executed
CallExact(status) ==
  /\ pc = "call" /\ stack # <<>> /\ Top.at = "run"
  /\ probes.exact[Top.Command]
  /\ ReturnError(CmdRun(status), {})

\* Run, case "typecheck": HandleTypecheckCommand creates no runner
CallTypecheck(status) ==
  /\ pc = "call" /\ stack # <<>> /\ Top.at = "run"
  /\ Top.Command = "typecheck"
  /\ ~probes.exact[Top.Command]
  /\ ReturnError(IF ~probes.capability THEN CapabilityAbsent
                 ELSE IF probes.synthesized THEN CmdRun(status)
                 ELSE SynthesisFailed, {"typecheck"})

\* Run, no synthesized command: the normalized retry, else not found
CallFallback(status) ==
  /\ pc = "call" /\ stack # <<>> /\ Top.at = "run"
  /\ Top.Command \notin {"check", "fix", "typecheck"}
  /\ ~probes.exact[Top.Command]
  /\ ReturnError(IF probes.retry[Top.Command] THEN CmdRun(status)
                 ELSE NotFound(Top.Command), {})

\* the top runner enters the loop of a synthesis policy
EnterLoop(at) ==
  /\ stack' = [stack EXCEPT ![Len(stack)] = [@ EXCEPT !.at = at, !.idx = 1]]
  /\ entered' = entered \cup {at, IF at = "check" THEN "synthesizeCheck"
                                                   ELSE "synthesizeFix"}
  /\ UNCHANGED <<callFrame, err>>

\* Run, case "check": the native command, else the synthesis
CallCheck(status) ==
  /\ pc = "call" /\ stack # <<>> /\ Top.at = "run"
  /\ Top.Command = "check"
  /\ ~probes.exact[Top.Command]
  /\ IF probes.nativeCheck
       THEN ReturnError(CmdRun(status), {"check"})
     ELSE IF ~\E i \in 1..Len(checkCommands) : probes.exact[checkCommands[i]]
       THEN ReturnError(NoCheckCommands, {"check", "synthesizeCheck"})
     ELSE EnterLoop("check")

\* Run, case "fix": the native command, else the synthesis
CallFix(status) ==
  /\ pc = "call" /\ stack # <<>> /\ Top.at = "run"
  /\ Top.Command = "fix"
  /\ ~probes.exact[Top.Command]
  /\ IF probes.nativeFix
       THEN ReturnError(CmdRun(status), {"fix"})
     ELSE IF ~\E c \in {"format", "fmt"} \cup (IF probes.lintFix THEN {"lint"}
                                                ELSE {}) : probes.exact[c]
       THEN ReturnError(NoFixCommands, {"fix", "synthesizeFix"})
     ELSE EnterLoop("fix")

\* the `continue` conditions of the two synthesis loops
SkipInLoop(r, cmdName) ==
  \/ ~probes.exact[cmdName]
  \/ (r.at = "check" /\ cmdName = "typecheck" /\ ~probes.capability)
  \/ (r.at = "fix" /\ cmdName \in {"format", "fmt"} /\ r.executedTypes)

\* one iteration of a synthesis loop: `continue`, or `subRunner.Run()` is
\* called and the sub-runner is the runner that executes
LoopStep ==
  /\ pc = "call" /\ stack # <<>> /\ Top.at \in {"check", "fix"}
  /\ Top.idx <= Len(LoopCommands(Top))
  /\ Len(stack) < MaxStack
  /\ stack' = IF SkipInLoop(Top, LoopCommands(Top)[Top.idx])
              THEN [stack EXCEPT ![Len(stack)] = [@ EXCEPT !.idx = @ + 1]]
              ELSE Append(stack, subRunner(Top, LoopCommands(Top)[Top.idx]))
  /\ UNCHANGED <<callFrame, err, entered>>

\* the end of a synthesis loop: the error it returns
LoopResult(r) ==
  IF r.at = "check"
  THEN (IF r.hasErrors THEN CheckFailed(r.failedCommands) ELSE Nil)
  ELSE (IF Len(r.executedCommands) = 0 /\ r.hasErrors THEN FixFailed ELSE Nil)

LoopReturn ==
  /\ pc = "call" /\ stack # <<>> /\ Top.at \in {"check", "fix"}
  /\ Top.idx > Len(LoopCommands(Top))
  /\ ReturnError(LoopResult(Top), {})

CallNext ==
  \/ \E status \in Statuses : CallExact(status)
  \/ \E status \in Statuses : CallTypecheck(status)
  \/ \E status \in Statuses : CallFallback(status)
  \/ \E status \in Statuses : CallCheck(status)
  \/ \E status \in Statuses : CallFix(status)
  \/ LoopStep
  \/ LoopReturn

\* every subprocess terminates and the process is scheduled: a step that is
\* possible is taken
CallSpec == CallInit /\ [][CallNext]_vars /\ WF_vars(CallNext)

(***************************************************************************)
(* The interactive session: the main loop of RunInteractive                *)
(***************************************************************************)
\* the keys read from the terminal; "interrupt" is Ctrl+C (byte 3) and
\* "escape" is ESC (byte 27)
Keys == {"q", ".", "/", "?", "c", "z", "interrupt", "escape"}

\* what is typed before the input ends: at most n keys
RECURSIVE KeySeqs(_)
KeySeqs(n) ==
  IF n = 0 THEN {<<>>}
  ELSE KeySeqs(n - 1)
       \cup {Append(s, k) : s \in {t \in KeySeqs(n - 1) : Len(t) = n - 1},
                            k \in Keys}

InteractiveSession(at, viewingOutput, lastCommand, lastExitCode, shown, lastErr) ==
  [at |-> at, viewingOutput |-> viewingOutput, lastCommand |-> lastCommand,
   lastExitCode |-> lastExitCode, shown |-> shown, lastErr |-> lastErr]

\* standard input: `raw` tells whether it is a terminal that can be put in
\* raw mode, `keys` is what remains to be read before the end of input
TerminalManager(raw, keys) == [raw |-> raw, keys |-> keys]

\* the session after gatherCommands, in a directory without task files:
\* the synthesized commands check and fix are the available commands
InteractiveInit ==
  /\ NoRun
  /\ NoCache
  /\ ProjectRoot = "cwd"
  /\ typed = ""
  /\ Command = ""
  /\ variants = <<>>
  /\ tree = <<>>
  /\ startDir = <<>>
  /\ current = <<>>
  /\ stack = <<>>
  /\ probes = <<>>
  /\ pc = "interactive"
  /\ session = InteractiveSession("loop", FALSE, "", 0, 0, "")
  /\ \E raw \in BOOLEAN, keys \in KeySeqs(MaxKeys) :
        stdin = TerminalManager(raw, keys)

\* the shortcuts of the commands that exist
commandShortcuts == [k \in {"c", "x"} |-> IF k = "c" THEN "check" ELSE "fix"]

\* ReadKey: the end of input is an error, and so are Ctrl+C and ESC
ReadKey(tm) ==
  IF tm.keys = <<>> THEN [key |-> "", err |-> "EOF", stdin |-> tm]
  ELSE [key   |-> IF Head(tm.keys) \in {"interrupt", "escape"} THEN ""
                  ELSE Head(tm.keys),
        err   |-> IF Head(tm.keys) \in {"interrupt", "escape"}
                  THEN Head(tm.keys) ELSE "",
        stdin |-> [tm EXCEPT !.keys = Tail(@)]]

\* `_, _ = s.terminal.ReadKey()`: wait for a key, whatever the read returns
PressAnyKey(tm) == ReadKey(tm).stdin

\* what a function of the session leaves behind and the error it returns
Handled(s, tm, error) == [session |-> s, stdin |-> tm, err |-> error]

\* runCommand: Run of a new runner ends with `status`; a failure waits for a
\* key; the error returned is nil
runCommand(s, tm, command, status) ==
  Handled([s EXCEPT !.lastCommand = command, !.lastExitCode = status],
          IF status # 0 THEN PressAnyKey(tm) ELSE tm, "")

\* typeMode: Scanln reads the rest of the line; the name typed starts with a
\* key that is no shortcut and matches no available command, so the
\* function waits for a key and returns nil
typeMode(s, tm) ==
  Handled(s, PressAnyKey([tm EXCEPT !.keys = <<>>]), "")

showMenu(s, tm, status) ==
  IF ~tm.raw THEN Handled(s, tm, "raw")
  ELSE LET k == ReadKey(tm)
       IN  IF k.err # ""
             THEN Handled(s, k.stdin, IF k.err = "interrupt" THEN "quit" ELSE k.err)
           ELSE IF k.key = "q" THEN Handled(s, k.stdin, "quit")
           ELSE IF k.key = "."
             THEN (IF s.lastCommand # ""
                   THEN runCommand(s, k.stdin, s.lastCommand, status)
                   ELSE Handled(s, k.stdin, ""))
           ELSE IF k.key = "/"
             THEN Handled(IF s.lastCommand # ""
                          THEN [s EXCEPT !.viewingOutput = TRUE] ELSE s,
                          k.stdin, "")
           ELSE IF k.key = "?" THEN Handled(s, PressAnyKey(k.stdin), "")
           ELSE IF k.key \in DOMAIN commandShortcuts
             THEN runCommand(s, k.stdin, commandShortcuts[k.key], status)
           ELSE typeMode(s, k.stdin)

showOutputView(s, tm) ==
  IF ~tm.raw THEN Handled(s, tm, "raw")
  ELSE LET k == ReadKey(tm)
       IN  IF k.err # ""
             THEN Handled(s, k.stdin, IF k.err = "interrupt" THEN "quit" ELSE k.err)
           ELSE IF k.key = "q" THEN Handled(s, k.stdin, "quit")
           ELSE IF k.key = "/"
             THEN Handled([s EXCEPT !.viewingOutput = FALSE], k.stdin, "")
           ELSE Handled(s, k.stdin, "")

\* the variables the session leaves alone
sessionFrame == <<fs, ProjectRoot, typed, Command, Args, pc, idx, hasErrors,
                  failedCommands, executedCommands, executedTypes, log,
                  entered, err, exitCode, variants, tree, startDir, current,
                  osArgs, stack, probes, cacheVars>>

\* one iteration of the main loop: "quit" returns, any other error and nil
\* go round again; `shown` counts the screens displayed, modulo MaxMenus
Iterate(h) ==
  /\ session' = [h.session EXCEPT
                   !.at = IF h.err = "quit" THEN "returned" ELSE @,
                   !.shown = (@ + 1) % MaxMenus,
                   !.lastErr = h.err]
  /\ stdin' = h.stdin
  /\ UNCHANGED sessionFrame

\* the main loop, menu side
ShowMenu(status) ==
  /\ pc = "interactive" /\ session # <<>>
  /\ session.at = "loop" /\ ~session.viewingOutput
  /\ Iterate(showMenu(session, stdin, status))

\* the main loop, output side
ShowOutputView ==
  /\ pc = "interactive" /\ session # <<>>
  /\ session.at = "loop" /\ session.viewingOutput
  /\ Iterate(showOutputView(session, stdin))

\* the goroutine of SetupSignalHandling: SIGINT or SIGTERM ends the process
Signal ==
  /\ pc = "interactive" /\ session # <<>>
  /\ session.at = "loop"
  /\ session' = [session EXCEPT !.at = "exited"]
  /\ UNCHANGED <<stdin, sessionFrame>>

InteractiveNext ==
  \/ \E status \in Statuses : ShowMenu(status)
  \/ ShowOutputView
  \/ Signal

\* the loop runs as long as it can; nobody has to send a signal
InteractiveSpec ==
  /\ InteractiveInit
  /\ [][InteractiveNext]_vars
  /\ WF_vars(\E status \in Statuses : ShowMenu(status))
  /\ WF_vars(ShowOutputView)

(***************************************************************************)
(* Properties                                                              *)
(***************************************************************************)
\* the process went into the interactive session and never called Run
InteractiveMode == \E i \in 1..Len(osArgs) : osArgs[i] \in InteractiveFlags
\* the top-level Run has dispatched
Started == pc \notin {"start", "run"} /\ ~InteractiveMode
\* the top-level Run has returned
Finished == pc \in {"exit", "done"} /\ ~InteractiveMode

\* some source of directory p answers FindCommand for `verb`
DefinesIn(p, verb) ==
  \E i \in 1..Len(ResolveProject(p)) :
     FindCommand(ResolveProject(p)[i], p, verb, <<>>) # None

DefinedSomewhere(verb) ==
  \E i \in 1..Len(SearchDirs) : DefinesIn(SearchDirs[i], verb)

\* the invocations the sources of the searched directories give for `verb`
AllInvocations(verb, args) ==
  UNION {{FindCommand(ResolveProject(SearchDirs[i])[j], SearchDirs[i], verb, args) :
            j \in 1..Len(ResolveProject(SearchDirs[i]))} :
         i \in 1..Len(SearchDirs)} \ {None}

\* the task name a task-file invocation runs
TaskRun(cmd) ==
  CASE cmd.src \in {"mise", "npm", "bun", "pnpm", "yarn"} -> cmd.argv[2]
    [] cmd.src \in {"make", "just"} -> cmd.argv[1]
    [] OTHER -> ""

LogVerbs == [i \in 1..Len(log) |-> log[i].verb]
RanVerb(verb) == \E i \in 1..Len(log) : log[i].verb = verb
StatusOf(verb) == log[CHOOSE i \in 1..Len(log) : log[i].verb = verb].status
AnyFailed == \E i \in 1..Len(log) : log[i].status # 0
AnySucceeded == \E i \in 1..Len(log) : log[i].status = 0

C2_ShortAliasRunsLiteralTask ==
  (Finished /\ typed = "f"
   /\ \E i \in 1..Len(SearchDirs), k \in {"mise", "just", "make", "scripts"} :
        {"f", "format"} \subseteq fs[SearchDirs[i]].tasks[k]) =>
     (Len(log) >= 1 /\ TaskRun(log[1].cmd) = "f")

\* C3: when the project root is another directory and a source resolves the
\* typed verb in both directories, the invocation executed runs in the
\* current directory; an invocation of the exact search runs in the project
\* root only if no source of the current directory resolves the command.
C3_DirectoryPrecedence ==
  (Started /\ ProjectRoot # CurrentDir) =>
     /\ (DefinesIn(CurrentDir, typed) /\ DefinesIn(ProjectRoot, typed)) =>
           /\ Len(log) = 1
           /\ log[1].cmd.dir = CurrentDir
           /\ log[1].cmd \in AllInvocations(Command, Args)
     /\ (entered = {} /\ Len(log) = 1 /\ log[1].cmd.dir = ProjectRoot) =>
           ~DefinesIn(CurrentDir, Command)

\* C3 witness: the current directory has only a priority-10 source (Cargo),
\* the project root a priority-3 Makefile defining the verb; cargo ran
C3_Witness ==
  /\ Finished /\ ProjectRoot # CurrentDir /\ typed = "test"
  /\ fs["cwd"].files = {"Cargo.toml"}
  /\ "test" \in fs["root"].tasks["make"]
  /\ Len(log) = 1 /\ log[1].cmd.prog = "cargo" /\ log[1].cmd.dir = "cwd"

\* C4: when synthesized check has run its loop, every constituent that
\* resolves (typecheck only with typecheck capability) was executed, whatever
\* the earlier ones returned; and when lint failed, test succeeded and
\* typecheck capability is absent, exactly lint and test were executed and
\* the error is "check failed: lint".
C4_CheckContinuesOnFailure ==
  (Finished /\ "synthesizeCheck" \in entered /\ err # NoCheckCommands) =>
     /\ \A c \in {"lint", "test"} : hasCommand(c) => RanVerb(c)
     /\ (hasCommand("typecheck") /\ hasTypecheckCapability) => RanVerb("typecheck")
     /\ (/\ hasCommand("lint") /\ hasCommand("test") /\ ~hasTypecheckCapability
         /\ RanVerb("lint") /\ RanVerb("test")
         /\ StatusOf("lint") # 0 /\ StatusOf("test") = 0) =>
           /\ LogVerbs = <<"lint", "test">>
           /\ err = CheckFailed(<<"lint">>)

\* C4 witness: lint failed, test then ran and succeeded, no typecheck
\* capability, and check reports lint only
C4_Witness ==
  /\ Finished /\ "synthesizeCheck" \in entered /\ ~hasTypecheckCapability
  /\ Len(log) = 2
  /\ log[1].verb = "lint" /\ log[1].status # 0
  /\ log[2].verb = "test" /\ log[2].status = 0
  /\ err = CheckFailed(<<"lint">>)

\* no directory searched holds a TypeScript config (a Deno config counted as
\* one), a Python manifest that mentions a type checker, a Rust manifest or a
\* Go manifest
NoTypecheckSignals ==
  \A i \in 1..Len(SearchDirs) :
     LET d == fs[SearchDirs[i]]
     IN  /\ "tsconfig.json" \notin d.files
         /\ "deno.json" \notin d.files
         /\ "Cargo.toml" \notin d.files
         /\ "go.mod" \notin d.files
         /\ ("pyproject.toml" \in d.files => d.pyWords \cap {"pyright", "mypy"} = {})

\* no task file of a searched directory defines a task
NoTasksDefined ==
  \A i \in 1..Len(SearchDirs), k \in TaskFiles : fs[SearchDirs[i]].tasks[k] = {}

\* C5 (as claimed, and even for directories whose task files define no task
\* at all): without a TypeScript config, a Python manifest mentioning a type
\* checker, a Rust manifest or a Go manifest, `cmdr typecheck` fails with the
\* capability-absent error and executes nothing.
C5_TypecheckCapabilityGating ==
  (Finished /\ Command = "typecheck" /\ NoTypecheckSignals /\ NoTasksDefined) =>
     (err = CapabilityAbsent /\ log = <<>>)

\* C6 (as claimed): a run of synthesized fix executes at most one formatting
\* invocation: format and fmt are never both run.
C6_FixRunsOneFormatter ==
  ("synthesizeFix" \in entered) =>
     Cardinality({i \in 1..Len(log) : log[i].verb \in {"format", "fmt"}}) <= 1

C8_SynthesisPreconditions ==
  /\ (/\ Finished /\ Command = "check"
      /\ \A v \in {"check", "lint", "typecheck", "test"} : ~DefinedSomewhere(v)) =>
        (err = NoCheckCommands /\ log = <<>>)
  /\ (/\ Finished /\ Command = "fix"
      /\ \A v \in {"fix", "format", "fmt"} : ~DefinedSomewhere(v)
      /\ (supportsLintFix => ~DefinedSomewhere("lint"))) =>
        (err = NoFixCommands /\ log = <<>>)

\* C9 (as claimed): the "no command found" error names the verb as typed.
C9_NotFoundNamesTypedVerb ==
  (Finished /\ err.kind = "NotFound") => err.verb = typed

\* C10 (as claimed): on direct dispatch the process exits with the exit
\* status of the tool.
C10_ExitStatusMirrorsTool ==
  (pc = "done" /\ entered = {} /\ Len(log) = 1) => exitCode = log[1].status

\* the keys of the alias table of NormalizeCommand
NormalizeKeys ==
  {"format", "fmt", "f", "run", "r", "dev", "serve", "s", "start", "build",
   "b", "lint", "l", "test", "t", "fix", "clean", "install", "setup", "check",
   "typecheck", "tc"}

\* the keys of the variants table of GetCommandVariants
VariantKeys ==
  {"format", "f", "run", "r", "dev", "serve", "s", "build", "b", "lint", "l",
   "test", "t", "fix", "clean", "install", "setup", "check", "typecheck", "tc"}

\* C11: NormalizeCommand applied to its own result changes nothing, for
\* verbs in the alias table and for verbs outside it, and a verb outside
\* the table is its own normal form.
C11_NormalizeIdempotent ==
  /\ (pc = "renormalized") => Command = NormalizeCommand(typed)
  /\ (pc = "normalized" /\ typed \notin NormalizeKeys) => Command = typed

\* C11 witness: `f` was normalized to `format`, and normalized again
C11_Witness ==
  pc = "renormalized" /\ typed = "f" /\ Command = "format"

\* C12: the variants of a verb start with the verb itself, and a verb that
\* is not a key of the variants table has itself as its only variant.
C12_VariantsStartWithVerb ==
  (pc = "variants") =>
     /\ Len(variants) >= 1
     /\ variants[1] = typed
     /\ (typed \notin VariantKeys) => variants = <<typed>>

\* C12 witness: the variants of `f` are f, format, fmt
C12_Witness ==
  pc = "variants" /\ typed = "f" /\ variants = <<"f", "format", "fmt">>

\* C13 (as claimed): f is normalized to format, tc to typecheck, and each of
\* run, dev, serve and start to run.
C13_FamiliesHaveOneRepresentative ==
  (pc = "normalized") =>
     /\ (typed = "f") => Command = "format"
     /\ (typed = "tc") => Command = "typecheck"
     /\ (typed \in {"run", "dev", "serve", "start"}) => Command = "run"

\* C13 (amended): f and fmt are normalized to format, tc to typecheck, r to
\* run and s to serve; run, dev, serve and start are each their own normal
\* form.
C13_ShortAliasesOnly ==
  (pc = "normalized") =>
     /\ (typed \in {"f", "fmt"}) => Command = "format"
     /\ (typed = "tc") => Command = "typecheck"
     /\ (typed = "r") => Command = "run"
     /\ (typed = "s") => Command = "serve"
     /\ (typed \in {"run", "dev", "serve", "start"}) => Command = typed

\* C13 witness: `dev` is normalized to `dev`
C13_Witness ==
  pc = "normalized" /\ typed = "dev" /\ Command = "dev"

\* task runners (1), language-native tools (2), build-system wrappers (3)
SourceClass(src) ==
  CASE src \in {"mise", "just", "make"} -> 1
    [] src \in {"Gradle", "Maven"}      -> 3
    [] OTHER                            -> 2

\* the position of x in a sequence that holds it once
IndexIn(seq, x) == CHOOSE i \in 1..Len(seq) : seq[i] = x

\* C14: the sources ResolveProject gives for a directory are the sources
\* discovered, in ascending priority, sources of equal priority in discovery
\* order; so mise, just and make come before every language-native source,
\* and every language-native source before Gradle and Maven.
C14_SourcesSortedStable ==
  Started =>
    \A p \in Paths :
      \A srcs \in {ResolveProject(p)}, found \in {DiscoverSources(p)} :
        /\ Len(srcs) = Len(found)
        /\ {srcs[i] : i \in 1..Len(srcs)} = {found[i] : i \in 1..Len(found)}
        /\ \A i, j \in 1..Len(srcs) :
             i < j =>
               /\ Priority(srcs[i]) <= Priority(srcs[j])
               /\ Priority(srcs[i]) = Priority(srcs[j]) =>
                    IndexIn(found, srcs[i]) < IndexIn(found, srcs[j])
               /\ SourceClass(srcs[i]) <= SourceClass(srcs[j])

\* C14 witness: a run in a directory with three task runners, a language
\* manifest and two build-system wrappers
C14_Witness ==
  /\ Finished
  /\ ResolveProject("cwd") = <<"mise", "just", "make", "Cargo", "Gradle", "Maven">>
  /\ Len(log) = 1 /\ log[1].cmd.src = "just"

\* the place of a source in the documented search order: mise, just, make,
\* Node.js, Rust, Go, Python, Gradle, Maven
DocumentedRank(src) ==
  CASE src = "mise"   -> 1
    [] src = "just"   -> 2
    [] src = "make"   -> 3
    [] src \in {"npm", "bun", "pnpm", "yarn", "Deno"} -> 4
    [] src = "Cargo"  -> 5
    [] src = "Go"     -> 6
    [] src \in {"uv", "Poetry"} -> 7
    [] src = "Gradle" -> 8
    [] src = "Maven"  -> 9

\* C15 (as claimed): on direct dispatch the source whose invocation is
\* executed comes, in the documented order, before every other source of
\* the same directory that resolves the command.
C15_DocumentedSourceOrder ==
  (Finished /\ entered = {} /\ Len(log) = 1) =>
    \A p \in {log[1].cmd.dir}, srcs \in {ResolveProject(log[1].cmd.dir)} :
      \A j \in 1..Len(srcs) :
        FindCommand(srcs[j], p, Command, Args) # None =>
          DocumentedRank(log[1].cmd.src) <= DocumentedRank(srcs[j])

\* the arguments typed after the verb
TypedArgs == SubSeq(osArgs, 2, Len(osArgs))

\* `args` are the trailing elements of `argv`, in order
EndsWith(argv, args) ==
  /\ Len(argv) >= Len(args)
  /\ SubSeq(argv, Len(argv) - Len(args) + 1, Len(argv)) = args

\* C16: when the process has ended and some source of the searched
\* directories resolves the typed verb, an invocation was executed, and the
\* argument list of every executed invocation ends with the arguments typed
\* after the verb, unmodified and in order.
C16_ArgumentsPassedThrough ==
  (pc = "done" /\ osArgs # <<>> /\ DefinedSomewhere(NormalizeCommand(osArgs[1])))
    => /\ Len(log) >= 1
       /\ \A i \in 1..Len(log) : EndsWith(log[i].cmd.argv, TypedArgs)

\* the run went through synthesizeCheckCommand or synthesizeFixCommand
Synthesizing == entered \cap {"synthesizeCheck", "synthesizeFix"} # {}

\* a step starts at most one invocation, after every earlier one has ended
\* and been recorded with its exit status
OneAtATime ==
  /\ Len(log') <= Len(log) + 1
  /\ SubSeq(log', 1, Len(log)) = log

\* C17: a Run that dispatches directly executes at most one invocation; a
\* Run that synthesizes check or fix executes at most one invocation for each
\* constituent verb; and invocations run one after the other, a step never
\* starting more than one and never before the earlier ones have ended.
C17_OneInvocationPerVerb ==
  /\ [](/\ ~Synthesizing => Len(log) <= 1
        /\ \A i, j \in 1..Len(log) : log[i].verb = log[j].verb => i = j)
  /\ [][OneAtATime]_vars

\* a synthesized check has executed all three constituents, and the process
\* has ended
C17_Witness ==
  /\ pc = "done"
  /\ "synthesizeCheck" \in entered
  /\ LogVerbs = checkCommands

\* the ancestors of startDir (startDir included) that hold a marker, by
\* their number of components
MarkedDepths ==
  {k \in 0..Len(startDir) : tree[k + 1] \cap {".git", ".jj"} # {}}

\* the deepest of them: the nearest to startDir
NearestMarked == CHOOSE k \in MarkedDepths : \A j \in MarkedDepths : j <= k

\* C18: FindProjectRoot(dir) returns the nearest directory among dir and its
\* ancestors that holds a `.git` or `.jj` entry, or dir itself when no
\* directory up to the filesystem root holds one; and the walk ends for
\* every dir.
C18_NearestMarkerOrStart ==
  /\ [](pc = "returned" =>
          IF MarkedDepths # {}
          THEN ProjectRoot = SubSeq(startDir, 1, NearestMarked)
          ELSE ProjectRoot = startDir)
  /\ <>(pc = "returned")

\* the walk passed an unmarked directory and returned the nearer of two
\* marked ancestors, one found by `.jj` alone
C18_Witness ==
  /\ pc = "returned"
  /\ Len(ProjectRoot) < Len(startDir)
  /\ tree[Len(ProjectRoot) + 1] \cap {".git", ".jj"} = {".jj"}
  /\ \E k \in MarkedDepths : k < Len(ProjectRoot)

\* the directory holds one of the files that make type checking possible
TypecheckFiles(d) ==
  \/ "tsconfig.json" \in d.files
  \/ ("pyproject.toml" \in d.files /\ d.pyWords \cap {"pyright", "mypy"} # {})
  \/ "Cargo.toml" \in d.files
  \/ "go.mod" \in d.files

\* C19: hasTypecheckCapability is true if and only if the current directory
\* or the project root holds tsconfig.json, or a pyproject.toml that mentions
\* pyright or mypy, or Cargo.toml, or go.mod.
C19_CapabilityIffTypecheckFiles ==
  hasTypecheckCapability
    <=> (TypecheckFiles(fs[CurrentDir]) \/ TypecheckFiles(fs[ProjectRoot]))

\* `cmdr typecheck` ended with the capability-absent error in a directory
\* whose pyproject.toml mentions no type checker, the project root being a
\* different directory
C19_Witness ==
  /\ pc = "done"
  /\ Command = "typecheck"
  /\ err = CapabilityAbsent
  /\ ProjectRoot # CurrentDir
  /\ "pyproject.toml" \in fs[CurrentDir].files

\* C20: whenever hasTypecheckCapability is true, a tsconfig.json without
\* package.json and a plain pyproject.toml that mentions pyright included,
\* `cmdr typecheck` constructs and executes an invocation, and its result is
\* neither the capability-absent nor the could-not-synthesize error.
C20_CapabilityImpliesInvocation ==
  (Finished /\ Command = "typecheck" /\ hasTypecheckCapability)
    => /\ Len(log) = 1
       /\ err # CapabilityAbsent
       /\ err # SynthesisFailed

\* the documented orders of the constituents of check and of fix
DocumentedCheckOrder == <<"lint", "typecheck", "test">>
DocumentedFixOrder == <<"format", "fmt", "lint">>

\* the step executed one invocation more, for a verb that comes later in
\* `order` than the verb of every invocation recorded before
StartsLaterIn(order) ==
  /\ Len(log') = Len(log) + 1
  /\ SubSeq(log', 1, Len(log)) = log
  /\ \A i \in 1..Len(log) :
        IndexIn(order, log[i].verb) < IndexIn(order, log'[Len(log')].verb)

\* C21: synthesized check executes its constituents in the order lint,
\* typecheck, test, and synthesized fix executes formatting before lint
\* --fix; an invocation starts only once the invocations of the earlier
\* constituents have ended and been recorded.
C21_ConstituentsInOrder ==
  [][/\ (pc = "check" /\ log' # log) => StartsLaterIn(DocumentedCheckOrder)
     /\ (pc = "fix" /\ log' # log) => StartsLaterIn(DocumentedFixOrder)]_vars

\* a synthesized fix has executed format and then lint --fix
C21_Witness ==
  /\ pc = "done"
  /\ "synthesizeFix" \in entered
  /\ LogVerbs = <<"format", "lint">>
  /\ log[2].cmd.argv[Len(log[2].cmd.argv)] = "--fix"

\* the loop of synthesizeCheckCommand handed `typecheck` to a sub-runner:
\* its Run executed an invocation, or went into HandleTypecheckCommand
TypecheckAttempted == RanVerb("typecheck") \/ "typecheck" \in entered

\* C22: when synthesized check has run its loop and typecheck capability is
\* present, a typecheck resolution was attempted; typecheck is skipped only
\* when the capability is absent.
C22_TypecheckSkippedOnlyWithoutCapability ==
  (/\ Finished /\ Command = "check" /\ "synthesizeCheck" \in entered
   /\ err # NoCheckCommands /\ hasTypecheckCapability)
    => TypecheckAttempted

\* the command names a source of directory p defines: the tasks of its task
\* file, or the keys of its built-in table (a Node source: its scripts and
\* the three built-in commands; Deno: its table and its tasks)
SourceDefines(src, p) ==
  CASE src \in {"mise", "just", "make"} -> fs[p].tasks[src]
    [] src \in {"npm", "bun", "pnpm", "yarn"} ->
         fs[p].tasks["scripts"] \cup {"setup", "install", "typecheck"}
    [] src = "Deno"   -> DOMAIN denoCommands \cup fs[p].tasks["deno"]
    [] src = "Poetry" -> DOMAIN poetryCommands
    [] src = "uv"     -> DOMAIN uvCommands
    [] src = "Cargo"  -> DOMAIN cargoCommands
    [] src = "Go"     -> DOMAIN goCommands
    [] src = "Gradle" -> DOMAIN gradleCommands
    [] src = "Maven"  -> DOMAIN mavenCommands
    [] OTHER          -> {}

\* the first spelling of vs that is in `defined`
FirstDefined(vs, defined) ==
  vs[CHOOSE k \in 1..Len(vs) :
       vs[k] \in defined /\ \A j \in 1..(k - 1) : vs[j] \notin defined]

\* C23: the invocation a direct dispatch executes comes from a source that
\* defines one of the variants of the command, and a task-file source runs
\* the first variant it defines; a verb none of whose variants the source
\* defines is never turned into an invocation.
C23_OnlyDefinedVariantsResolve ==
  (Started /\ entered = {} /\ Len(log) = 1) =>
     LET c  == log[1].cmd
         vs == GetCommandVariants(Command)
     IN  /\ \E k \in 1..Len(vs) : vs[k] \in SourceDefines(c.src, c.dir)
         /\ c.src \in {"mise", "just", "make"} =>
               TaskRun(c) = FirstDefined(vs, SourceDefines(c.src, c.dir))

\* a directory searched holds a package.json that mentions eslint or a
\* pyproject.toml that mentions ruff
AutoFixLinterPresent ==
  \E i \in 1..Len(SearchDirs) :
     LET d == fs[SearchDirs[i]]
     IN  \/ ("package.json" \in d.files /\ "eslint" \in d.pkgWords)
         \/ ("pyproject.toml" \in d.files /\ "ruff" \in d.pyWords)

\* go.mod is in the current directory or in the project root
GoModPresent ==
  "go.mod" \in fs[CurrentDir].files \/ "go.mod" \in fs[ProjectRoot].files

\* C24: synthesized fix executes a lint invocation only for a linter with an
\* auto-fix mode, and then with --fix: with go.mod in the current directory or
\* the project root it executes no lint invocation, a package.json mentioning
\* eslint or a pyproject.toml mentioning ruff notwithstanding.
C24_LintFixOnlyWhenSupported ==
  (Started /\ Command = "fix" /\ "synthesizeFix" \in entered) =>
     \A i \in 1..Len(log) :
        log[i].verb = "lint" =>
           /\ ~GoModPresent
           /\ AutoFixLinterPresent
           /\ \E k \in 1..Len(log[i].cmd.argv) : log[i].cmd.argv[k] = "--fix"

\* synthesized fix has ended in a Go project that also has an eslint
\* package.json with a lint script: something was executed, lint was not
C24_Witness ==
  /\ pc = "done"
  /\ "synthesizeFix" \in entered
  /\ GoModPresent
  /\ AutoFixLinterPresent
  /\ DefinedSomewhere("lint")
  /\ Len(log) >= 1
  /\ ~RanVerb("lint")

\* one goroutine only calls getCachedCommands: the calls come one after the
\* other
SequentialCalls == DOMAIN goroutines = {1}

\* the list function has run at most once for every key, and every call that
\* has returned gave the listing the cache holds for its key
ListedOnce ==
  /\ \A k \in DOMAIN listCalls : listCalls[k] <= 1
  /\ \A g \in DOMAIN goroutines :
        (goroutines[g].pc = "idle" /\ goroutines[g].calls > 0) =>
           /\ goroutines[g].key \in DOMAIN commandListCache
           /\ goroutines[g].result = commandListCache[goroutines[g].key]

\* the entries of the cache stay what they were when first stored
EntriesKept ==
  \A k \in DOMAIN commandListCache :
     k \in DOMAIN commandListCache' /\ commandListCache'[k] = commandListCache[k]

\* C25: across the ListCommands and FindCommand calls one process makes, one
\* after the other, on sources with the same (source name, directory) key,
\* the listing is executed on the first call only, and every later call
\* returns the result of the first, whatever has become of the task file.
C25_DiscoveryOncePerSource ==
  /\ [](SequentialCalls => ListedOnce)
  /\ [][SequentialCalls => EntriesKept]_vars

\* the second of two calls for one key has returned the first listing, which
\* the task file no longer matches; the list function ran once
C25_Witness ==
  /\ SequentialCalls
  /\ goroutines[1].pc = "idle"
  /\ goroutines[1].calls = 2
  /\ DOMAIN listCalls = {goroutines[1].key}
  /\ listCalls[goroutines[1].key] = 1
  /\ goroutines[1].result
       # fs[goroutines[1].key[2]].tasks[goroutines[1].key[1]]

\* C28: with two or more goroutines calling getCachedCommands for the same
\* key at the same time, the list function is executed at most once, all
\* callers receive the cached listing, and an entry once stored is never
\* replaced.
C28_ConcurrentCallersListOnce ==
  /\ [](~SequentialCalls => ListedOnce)
  /\ [][~SequentialCalls => EntriesKept]_vars

\* C26: when synthesized check returns success, at least one of its
\* constituents lint, typecheck, test was executed during the run; check
\* never reports success after executing nothing.
C26_CheckSuccessMeansExecution ==
  (Finished /\ Command = "check" /\ "synthesizeCheck" \in entered /\ err = Nil)
    => \E i \in 1..Len(log) : log[i].verb \in {"lint", "typecheck", "test"}

\* the verbs the spec says the sub-runners carry
SubRunnerVerbs == {"lint", "typecheck", "test", "format", "fmt"}

\* C27: every call to Run terminates when every subprocess does; the
\* sub-runners of check and fix synthesis carry only lint, typecheck, test,
\* format and fmt; at most two runners are inside Run at any time
C27_RunTerminatesAtDepthTwo ==
  /\ [](/\ Len(stack) <= 2
        /\ \A i \in 2..Len(stack) : stack[i].Command \in SubRunnerVerbs)
  /\ <>(stack = <<>>)

\* a sub-runner is inside Run, called from a synthesis loop
C27_Witness ==
  /\ pc = "call"
  /\ Len(stack) = 2
  /\ stack[1].at \in {"check", "fix"}
  /\ stack[2].at = "run"

ReadFailed == session # <<>> /\ session.lastErr \in {"EOF", "raw"}

\* C30 (as claimed): whenever reading a key fails, RunInteractive eventually
\* returns instead of displaying the menu again forever (a process ended by
\* a signal counts as a session that ended)
C30_ReadFailureEndsSession ==
  ReadFailed ~> (session # <<>> /\ session.at \in {"returned", "exited"})

====
